---- MODULE Spec2Model ----
(***************************************************************************)
(* Model of the OTP registration/verification service                      *)
(* (backend/services/authService.js) and of the upload controller          *)
(* (UploadController.uploadFiles in backend/routes/uploads.js).            *)
(*                                                                         *)
(* Collections of the document store are sequences in insertion order;     *)
(* findOne returns the first match.  Every handler is one action.          *)
(*                                                                         *)
(* crypto.randomBytes(16) is modelled as a collision-free source: each     *)
(* identifier drawn is different from all identifiers drawn before.        *)
(* Math.random() is a choice among RandSamples.                            *)
(***************************************************************************)
EXTENDS Integers, Sequences, FiniteSets

VARIABLES users, verifs, issued, now, last, documents, disk, nextPath, page, retry,
          inflight, modal

vars == <<users, verifs, issued, now, last, documents, disk, nextPath, page, retry,
          inflight, modal>>

authVars == <<users, verifs, issued, now>>
uploadVars == <<documents, disk, nextPath>>
clientVars == <<page, retry, modal>>
serverVars == <<users, verifs, issued, now, last, documents, disk, nextPath, inflight>>

(***************************************************************************)
(* Bounds of the model                                                     *)
(***************************************************************************)
MaxIds == 2
MaxUsers == 2
MaxFiles == 3
MaxBatch == 2

Emails == {"a@x", "b@x"}
Mobiles == {"m1", "m2"}
TempPasswords == {"t1"}
LoginPasswords == {"t1", "wrong"}

\* Values of Math.floor(Math.random() * 900000): the two ends of 0..899999
RandSamples == {0, 899999}

\* 15 * 60 * 1000 milliseconds
OTP_TTL_MS == 15 * 60 * 1000


NoDate == -1
NoToken == <<>>
NoId == 0

ErrExists == "User already exists with this email or mobile number"
ErrExistsEmail == "User already exists with this email"
ErrCredentials == "Invalid credentials"
ErrDeactivated == "Account is deactivated"
ErrInvalidOrExpired == "Invalid or expired OTP"
ErrInvalidOtp == "Invalid OTP"
ErrUserNotFound == "User not found"
ErrNoAccount == "No account found with this email address"
ErrAlreadyVerified == "Email is already verified"
Ok == "ok"

(***************************************************************************)
(* Helpers: strings, collections                                           *)
(***************************************************************************)
\* Number.prototype.toString() for a non-negative integer: its decimal digits
RECURSIVE NumToString(_)
NumToString(n) == IF n < 10 THEN <<n>> ELSE Append(NumToString(n \div 10), n % 10)

\* the number a digit string denotes
RECURSIVE ToNumber(_)
ToNumber(s) == IF Len(s) = 0 THEN 0 ELSE 10 * ToNumber(SubSeq(s, 1, Len(s) - 1)) + s[Len(s)]

RECURSIVE SelectSeqBy(_, _)
\* the subsequence of s whose indices are in keep, in order
SelectSeqBy(s, keep) ==
    IF Len(s) = 0 THEN <<>>
    ELSE LET rest == SelectSeqBy(SubSeq(s, 1, Len(s) - 1), keep)
         IN  IF Len(s) \in keep THEN Append(rest, s[Len(s)]) ELSE rest

\* Model.findOne(query): index of the first match, 0 when there is none
FirstIndex(s, Match(_)) ==
    IF \E i \in 1..Len(s) : Match(s[i])
    THEN CHOOSE i \in 1..Len(s) : Match(s[i]) /\ \A j \in 1..(i - 1) : ~Match(s[j])
    ELSE 0

\* Model.deleteOne(query)
DeleteOne(s, Match(_)) ==
    LET i == FirstIndex(s, Match)
    IN  IF i = 0 THEN s ELSE SelectSeqBy(s, (1..Len(s)) \ {i})

\* Model.deleteMany(query)
DeleteMany(s, Match(_)) == SelectSeqBy(s, {i \in 1..Len(s) : ~Match(s[i])})

(***************************************************************************)
(* AuthService                                                             *)
(***************************************************************************)
\* generateToken(id): jwt.sign({ id }, secret)
generateToken(id) == <<"jwt", id>>

\* bcrypt.hash / user.comparePassword
bcryptHash(pw) == <<"bcrypt", pw>>
comparePassword(user, pw) == user.password = bcryptHash(pw)

\* an identifier taken from the clock: two draws in one millisecond collide
NewVerificationId_FromClock == now + 1

\* crypto.randomBytes(16).toString('hex'): a value never drawn before
NewVerificationId == Cardinality(DOMAIN issued) + 1

\* Math.floor(Math.random() * 900000).toString(): the offset forgotten
GenerateOtp_NoOffset(r) == NumToString(r)

\* Math.floor(100000 + Math.random() * 900000).toString(), r = floor(random * 900000)
GenerateOtp(r) == NumToString(100000 + r)

\* Date.now() + 15 * 1000: seconds taken for minutes
ExpiresAt_Seconds(t) == t + 15 * 1000

\* Date.now() + 15 * 60 * 1000
ExpiresAt(t) == t + OTP_TTL_MS

\* a query that matches on the identifier alone
MatchesUnexpired_IgnoreExpiry(rec, verificationId, t) ==
    rec.verificationId = verificationId

\* a query that matches any unexpired record
MatchesUnexpired_AnyId(rec, verificationId, t) ==
    rec.expiresAt > t

\* a query with $gte in place of $gt
MatchesUnexpired_Inclusive(rec, verificationId, t) ==
    rec.verificationId = verificationId /\ rec.expiresAt >= t

\* query { verificationId, expiresAt: { $gt: Date.now() } }
MatchesUnexpired(rec, verificationId, t) ==
    rec.verificationId = verificationId /\ rec.expiresAt > t

\* a comparison that accepts every submitted code
OtpMatches_Any(rec, otp) == TRUE

\* verificationRecord.otp !== otp, negated
OtpMatches(rec, otp) == rec.otp = otp

UserIndexByEmail(email) == FirstIndex(users, LAMBDA u : u.email = email)

UserIndexByEmailOrMobile(email, mobile) ==
    FirstIndex(users, LAMBDA u : u.email = email \/ u.mobile = mobile)

\* EmailVerification.create({ email, otp, verificationId, expiresAt })
NewRecord(email, otp, verificationId, t) ==
    [email |-> email, otp |-> otp, verificationId |-> verificationId,
     expiresAt |-> ExpiresAt(t)]

\* a deleteOne that removes nothing
RemoveVerification_Keep(vs, verificationId) == vs

\* EmailVerification.deleteOne({ verificationId })
RemoveVerification(vs, verificationId) ==
    DeleteOne(vs, LAMBDA rec : rec.verificationId = verificationId)

\* a resend that leaves the earlier records in place
PurgeEmail_Keep(vs, email) == vs

\* EmailVerification.deleteMany({ email })
PurgeEmail(vs, email) == DeleteMany(vs, LAMBDA rec : rec.email = email)

\* history: every identifier ever issued, with its email and expiry
Issue(rec, by) ==
    issued' = [v \in DOMAIN issued \cup {rec.verificationId} |->
                 IF v = rec.verificationId
                 THEN [email |-> rec.email, expiresAt |-> rec.expiresAt, by |-> by]
                 ELSE issued[v]]

\* identifiers are drawn while the model has some left
CanIssue == Cardinality(DOMAIN issued) < MaxIds

Result(op, email, verificationId, otp, result, token) ==
    [op |-> op, email |-> email, verificationId |-> verificationId, otp |-> otp,
     result |-> result, token |-> token]

\* the record verifyOtp works on: EmailVerification.findOne({ verificationId, expiresAt })
FindVerification(verificationId) ==
    FirstIndex(verifs, LAMBDA rec : MatchesUnexpired(rec, verificationId, now))

\* the outcome of verifyOtp(verificationId, otp) in the current state
VerifyOutcome(verificationId, otp) ==
    LET r == FindVerification(verificationId)
    IN  IF r = 0 THEN ErrInvalidOrExpired
        ELSE IF ~OtpMatches(verifs[r], otp) THEN ErrInvalidOtp
        ELSE IF UserIndexByEmail(verifs[r].email) = 0 THEN ErrUserNotFound
        ELSE Ok

registerUser(email, mobile, tempPassword, r) ==
    /\ IF UserIndexByEmailOrMobile(email, mobile) # 0
       THEN /\ last' = Result("registerUser", email, NoId, <<>>, ErrExists, NoToken)
            /\ UNCHANGED <<users, verifs, issued>>
       ELSE LET rec == NewRecord(email, GenerateOtp(r), NewVerificationId, now)
            IN  /\ Len(users) < MaxUsers
                /\ CanIssue
                /\ users' = Append(users,
                      [id |-> Len(users) + 1, email |-> email, mobile |-> mobile,
                       password |-> bcryptHash(tempPassword),
                       isEmailVerified |-> FALSE, lastLogin |-> NoDate,
                       isActive |-> TRUE])
                /\ verifs' = Append(verifs, rec)
                /\ Issue(rec, "registerUser")
                /\ last' = Result("registerUser", email, rec.verificationId, rec.otp, Ok, NoToken)
    /\ UNCHANGED now
    /\ UNCHANGED <<uploadVars, clientVars, inflight>>

loginUser(email, password) ==
    /\ LET i == UserIndexByEmail(email)
       IN  IF i = 0
           THEN /\ last' = Result("loginUser", email, NoId, <<>>, ErrCredentials, NoToken)
                /\ UNCHANGED users
           ELSE IF ~users[i].isActive
           THEN /\ last' = Result("loginUser", email, NoId, <<>>, ErrDeactivated, NoToken)
                /\ UNCHANGED users
           ELSE IF ~comparePassword(users[i], password)
           THEN /\ last' = Result("loginUser", email, NoId, <<>>, ErrCredentials, NoToken)
                /\ UNCHANGED users
           ELSE /\ users' = [users EXCEPT ![i].lastLogin = now]
                /\ last' = Result("loginUser", email, NoId, <<>>, Ok, generateToken(users[i].id))
    /\ UNCHANGED <<verifs, issued, now>>
    /\ UNCHANGED <<uploadVars, clientVars, inflight>>

verifyOtp(verificationId, otp) ==
    /\ LET outcome == VerifyOutcome(verificationId, otp)
           r == FindVerification(verificationId)
           email == IF r = 0 THEN "" ELSE verifs[r].email
       IN  IF outcome # Ok
           THEN /\ last' = Result("verifyOtp", email, verificationId, otp, outcome, NoToken)
                /\ UNCHANGED <<users, verifs>>
           ELSE LET i == UserIndexByEmail(email)
                IN  /\ users' = [users EXCEPT ![i].isEmailVerified = TRUE,
                                              ![i].lastLogin = now]
                    /\ verifs' = RemoveVerification(verifs, verificationId)
                    /\ last' = Result("verifyOtp", email, verificationId, otp, Ok,
                                      generateToken(users[i].id))
    /\ UNCHANGED <<issued, now>>
    /\ UNCHANGED <<uploadVars, clientVars, inflight>>

sendOtp(email, r) ==
    /\ IF UserIndexByEmail(email) # 0
       THEN /\ last' = Result("sendOtp", email, NoId, <<>>, ErrExistsEmail, NoToken)
            /\ UNCHANGED <<verifs, issued>>
       ELSE LET rec == NewRecord(email, GenerateOtp(r), NewVerificationId, now)
            IN  /\ CanIssue
                /\ verifs' = Append(verifs, rec)
                /\ Issue(rec, "sendOtp")
                /\ last' = Result("sendOtp", email, rec.verificationId, rec.otp, Ok, NoToken)
    /\ UNCHANGED <<users, now>>
    /\ UNCHANGED <<uploadVars, clientVars, inflight>>

\* a resend that does not look at isEmailVerified
ResendRejection_NoVerifiedCheck(email) ==
    IF UserIndexByEmail(email) = 0 THEN ErrNoAccount ELSE Ok

\* the two early throws of resendOtp
ResendRejection(email) ==
    LET i == UserIndexByEmail(email)
    IN  IF i = 0 THEN ErrNoAccount
        ELSE IF users[i].isEmailVerified THEN ErrAlreadyVerified
        ELSE Ok

resendOtp(email, r) ==
    /\ LET rejection == ResendRejection(email)
       IN  IF rejection # Ok
           THEN /\ last' = Result("resendOtp", email, NoId, <<>>, rejection, NoToken)
                /\ UNCHANGED <<verifs, issued>>
           ELSE LET rec == NewRecord(email, GenerateOtp(r), NewVerificationId, now)
                IN  /\ CanIssue
                    /\ verifs' = Append(PurgeEmail(verifs, email), rec)
                    /\ Issue(rec, "resendOtp")
                    /\ last' = Result("resendOtp", email, rec.verificationId, rec.otp, Ok, NoToken)
    /\ UNCHANGED <<users, now>>
    /\ UNCHANGED <<uploadVars, clientVars, inflight>>

\* The times at which the outcome of a request can change: the expiry times of
\* the issued records
ClockTargets ==
    {issued[v].expiresAt : v \in DOMAIN issued}

\* the clock read by Date.now() moves forward between requests
Tick(t) ==
    /\ t > now
    /\ now' = t
    /\ last' = Result("tick", "", NoId, <<>>, Ok, NoToken)
    /\ UNCHANGED <<users, verifs, issued>>
    /\ UNCHANGED <<uploadVars, clientVars, inflight>>

(***************************************************************************)
(* UploadController.uploadFiles                                            *)
(***************************************************************************)
Contents == {"x", "y"}
Names == {"doc.pdf"}

\* where the processing of one file can throw: before the duplicate check
\* (reading the temporary file, the hash lookup: "read") or after it (the
\* identifier generation, the record insert: "insert")
Faults == {"none", "read", "insert"}

\* crypto.createHash("sha256").update(fileBuffer).digest("hex")
Sha256(content) == <<"sha256", content>>

\* an upload without the duplicate check
FindByHash_Never(docs, documentHash) == FirstIndex(docs, LAMBDA d : FALSE)

\* Document.findOne({ documentHash })
FindByHash(docs, documentHash) ==
    FirstIndex(docs, LAMBDA d : d.documentHash = documentHash)

DuplicateError(file) == [kind |-> "already uploaded", originalname |-> file.originalname]
FailedError(file) == [kind |-> "Failed to process file", originalname |-> file.originalname]

\* a catch block that leaves the temporary file in place
Catch_KeepFile(acc, file) == [acc EXCEPT !.errors = Append(@, FailedError(file))]

\* a catch block that reports nothing
Catch_NoError(acc, file) == [acc EXCEPT !.disk = @ \ {file.path}]

\* the catch block of one iteration: the temporary file is unlinked if it
\* exists and one error is pushed
Catch(acc, file) ==
    [acc EXCEPT !.disk = @ \ {file.path}, !.errors = Append(@, FailedError(file))]

\* one iteration of the loop over req.files; acc holds the document store, the
\* temporary storage, uploadedDocuments and the per-file errors
ProcessFile(acc, file, userId) ==
    LET documentHash == Sha256(file.content)
        failed == Catch(acc, file)
    IN  IF file.fault = "read" THEN failed
        ELSE IF FindByHash(acc.docs, documentHash) # 0
        THEN [acc EXCEPT !.disk = @ \ {file.path},
                         !.errors = Append(@, DuplicateError(file))]
        ELSE IF file.fault = "insert" THEN failed
        ELSE LET document == [userId |-> userId, udin |-> Len(acc.docs) + 1,
                              filePath |-> file.path, originalName |-> file.originalname,
                              documentHash |-> documentHash]
             IN  [acc EXCEPT !.docs = Append(@, document),
                             !.uploaded = Append(@, document)]

RECURSIVE ProcessFiles_Break(_, _, _)
\* a loop that ends at the first rejected file
ProcessFiles_Break(acc, files, userId) ==
    IF Len(files) = 0 THEN acc
    ELSE LET after == ProcessFile(acc, Head(files), userId)
         IN  IF Len(after.errors) > Len(acc.errors) THEN after
             ELSE ProcessFiles_Break(after, Tail(files), userId)

RECURSIVE ProcessFiles(_, _, _)
\* the loop "for (let i = 0; i < req.files.length; i++)"
ProcessFiles(acc, files, userId) ==
    IF Len(files) = 0 THEN acc
    ELSE ProcessFiles(ProcessFile(acc, Head(files), userId), Tail(files), userId)

\* the JSON body of the response, with the request it answers (files, userId,
\* metaOk) beside it
Response(status, success, message, files, userId, metaOk, uploaded, errors) ==
    [op |-> "uploadFiles", status |-> status, success |-> success, message |-> message,
     files |-> files, userId |-> userId, metaOk |-> metaOk, uploadedFiles |-> uploaded,
     totalUploaded |-> Len(uploaded), totalRequested |-> Len(files), errors |-> errors]

\* a response that reports success whatever was uploaded
Success_Always(uploadedDocuments) == TRUE

\* success: uploadedDocuments.length > 0
Success(uploadedDocuments) == Len(uploadedDocuments) > 0

\* req.files as the upload middleware leaves them: every file of the batch is
\* in temporary storage under a path of its own
ReqFiles(inputs) ==
    [i \in 1..Len(inputs) |->
        [path |-> nextPath + i - 1, content |-> inputs[i].content,
         originalname |-> inputs[i].originalname, fault |-> inputs[i].fault]]

\* a handler that takes every user for verified
IsEmailVerified_Always(user) == TRUE

\* the gate "if (!req.user.isEmailVerified)"
IsEmailVerified(user) == user.isEmailVerified

\* error.message || "File upload failed" in the outer catch: the SyntaxError
\* thrown by JSON.parse carries a message of its own
ParseErrorMessage == "SyntaxError: not valid JSON"

\* u: the authenticated user (req.user); validationOk: validationResult(req)
\* is empty; metaOk: the batch-level JSON fields parse.  The handler binds the
\* name "errors" twice (the validation result and the per-file list); they are
\* two variables here.
uploadFiles(u, inputs, validationOk, metaOk) ==
    /\ nextPath + Len(inputs) - 1 <= MaxFiles
    /\ u \in 1..Len(users)
    /\ nextPath' = nextPath + Len(inputs)
    /\ LET files == ReqFiles(inputs)
           paths == {files[i].path : i \in 1..Len(files)}
           received == disk \cup paths
           userId == users[u].id
       IN  IF ~validationOk
           THEN /\ last' = Response(400, FALSE, "Validation failed", files, userId, metaOk, <<>>, <<>>)
                /\ disk' = received
                /\ UNCHANGED documents
           ELSE IF Len(files) = 0
           THEN /\ last' = Response(400, FALSE, "No files uploaded", files, userId, metaOk, <<>>, <<>>)
                /\ disk' = received
                /\ UNCHANGED documents
           ELSE IF ~IsEmailVerified(users[u])
           THEN /\ last' = Response(400, FALSE,
                                    "Please verify your email before uploading documents",
                                    files, userId, metaOk, <<>>, <<>>)
                /\ disk' = received \ paths
                /\ UNCHANGED documents
           ELSE IF ~metaOk
           THEN /\ last' = Response(500, FALSE, ParseErrorMessage, files, userId, metaOk, <<>>, <<>>)
                /\ disk' = received \ paths
                /\ UNCHANGED documents
           ELSE LET acc == ProcessFiles([docs |-> documents, disk |-> received,
                                         uploaded |-> <<>>, errors |-> <<>>],
                                        files, userId)
                    any == Success(acc.uploaded)
                IN  /\ documents' = acc.docs
                    /\ disk' = acc.disk
                    /\ last' = Response(IF any THEN 201 ELSE 400, any,
                                        IF any THEN "Successfully uploaded"
                                               ELSE "No files were uploaded successfully",
                                        files, userId, metaOk, acc.uploaded, acc.errors)
    /\ UNCHANGED <<authVars, clientVars, inflight>>

FileInputs == [content : Contents, originalname : Names, fault : Faults]

Batches == UNION {[1..n -> FileInputs] : n \in 0..MaxBatch}

\* the route runs protect, userOnly, uploadMultipleFiles and handleUploadError
\* before the handler and no validation chain, so validationResult(req) has no
\* errors; the batch-level JSON fields are the client's and parse or not
Gates ==
    {[validationOk |-> TRUE, metaOk |-> FALSE],
     [validationOk |-> TRUE, metaOk |-> TRUE]}

(***************************************************************************)
(* Payment page (unnamed/part_001): prices, line items, totals             *)
(***************************************************************************)
MaxItems == 2
MaxRenders == 2

\* A string is the sequence of its pieces.  undefined and "" are both the
\* empty sequence: the code below reads these fields only through ||, ===
\* against a non-empty string, and filter(Boolean), which treat them alike.
Missing == <<>>

DigitChars == <<"0", "1", "2", "3", "4", "5", "6", "7", "8", "9">>

\* String(n) for a non-negative integer
Str(n) == [k \in 1..Len(NumToString(n)) |-> DigitChars[NumToString(n)[k] + 1]]

\* JavaScript values: strings, numbers and undefined
JsStr(s) == [type |-> "string", str |-> s, num |-> 0]
JsNum(n) == [type |-> "number", str |-> <<>>, num |-> n]
JsUndefined == [type |-> "undefined", str |-> <<>>, num |-> 0]

\* Boolean(v)
Truthy(v) ==
    IF v.type = "string" THEN v.str # <<>>
    ELSE IF v.type = "number" THEN v.num # 0
    ELSE FALSE

\* a || b
JsOr(a, b) == IF Truthy(a) THEN a ELSE b

\* the text a value has inside a template literal or join()
ToText(v) ==
    IF v.type = "string" THEN v.str
    ELSE IF v.type = "number" THEN Str(v.num)
    ELSE <<"undefined">>

RECURSIVE Join(_, _)
\* Array.prototype.join
Join(parts, sep) ==
    IF Len(parts) = 0 THEN <<>>
    ELSE IF Len(parts) = 1 THEN ToText(parts[1])
    ELSE ToText(parts[1]) \o <<sep>> \o Join(Tail(parts), sep)

\* a check that takes every falsy number for absent
TypeofNumber_Truthy(v) == v.type = "number" /\ v.num # 0

\* typeof v === "number"
TypeofNumber(v) == v.type = "number"

\* Math.round that drops the fraction
MathRound_Floor(num, den) == num \div den

\* Math.round(num / den) for num >= 0, den > 0: the nearest integer, halves up
MathRound(num, den) == (2 * num + den) \div (2 * den)

\* DOCUMENT_TYPES of @shared/pricing: two priced types (an even and an odd
\* base price) and one without a base price
DOCUMENT_TYPES ==
    << [id |-> <<"d1">>, basePrice |-> 1000],
       [id |-> <<"d2">>, basePrice |-> 333],
       [id |-> <<"d0">>, basePrice |-> 0] >>

\* DOCUMENT_TYPES.find((d) => d.id === id): the index of the type, 0 if none
FindDocumentType(id) == FirstIndex(DOCUMENT_TYPES, LAMBDA d : d.id = id)

\* the multipliers 1.5, 2.0 and 1.0 as fractions
tierMultiplier(tier) ==
    IF tier = <<"Express">> THEN [num |-> 3, den |-> 2]
    ELSE IF tier = <<"Premium">> THEN [num |-> 2, den |-> 1]
    ELSE [num |-> 1, den |-> 1]

computeFilePriceINR(file, fallbackUnitPrice) ==
    LET d == FindDocumentType(file.documentTypeId)
    IN  IF d = 0 \/ DOCUMENT_TYPES[d].basePrice = 0 THEN fallbackUnitPrice
        ELSE MathRound(DOCUMENT_TYPES[d].basePrice * tierMultiplier(file.tier).num,
                       tierMultiplier(file.tier).den)

\* `${source}:${parts.filter(Boolean).join("|")}`
stableItemKey(source, parts) ==
    <<source, ":">> \o Join(SelectSeq(parts, Truthy), "|")

unitPrice == 100

\* a tax rate of 5%
taxRate_Five == [num |-> 5, den |-> 100]

\* 0.18
taxRate == [num |-> 18, den |-> 100]

\* itemsFromOrder.map((it, i) => ...), i counted from 0
normalizedOrderItems(itemsFromOrder) ==
    [k \in 1..Len(itemsFromOrder) |->
        LET it == itemsFromOrder[k]
            i == k - 1
            identity ==
                JsOr(JsStr(it.fileId),
                     JsStr(ToText(JsOr(JsStr(it.documentTypeId), JsStr(<<"doc">>)))
                           \o <<"|">> \o ToText(JsOr(JsStr(it.fileName), JsNum(i)))
                           \o <<"|">> \o ToText(JsOr(JsStr(it.tier), JsStr(<<"Standard">>)))))
        IN  [id |-> stableItemKey("order", <<identity>>),
             subtitle |-> it.fileName,
             price |-> computeFilePriceINR([documentTypeId |-> it.documentTypeId,
                                            tier |-> it.tier], unitPrice),
             tier |-> it.tier]]

\* validFilesFromCtx.map((f, i) => ...), i counted from 0
fallbackItemsFromFiles(validFilesFromCtx) ==
    [k \in 1..Len(validFilesFromCtx) |->
        LET f == validFilesFromCtx[k]
            i == k - 1
            identity == JsOr(JsOr(JsStr(f.id), JsStr(f.name)), JsNum(i))
        IN  [id |-> stableItemKey("file", <<identity>>),
             subtitle |-> f.name,
             price |-> computeFilePriceINR(f, unitPrice),
             tier |-> f.tier]]

\* normalizedOrderItems.length > 0 ? normalizedOrderItems : fallbackItemsFromFiles
items(itemsFromOrder, validFilesFromCtx) ==
    IF Len(normalizedOrderItems(itemsFromOrder)) > 0
    THEN normalizedOrderItems(itemsFromOrder)
    ELSE fallbackItemsFromFiles(validFilesFromCtx)

RECURSIVE SumPrices(_)
\* items.reduce((s, it) => s + (Number(it.price) || 0), 0)
SumPrices(its) == IF Len(its) = 0 THEN 0 ELSE its[1].price + SumPrices(Tail(its))

subtotal(calculation, its) ==
    IF TypeofNumber(calculation.subtotal) THEN calculation.subtotal.num
    ELSE SumPrices(its)

gstAmount(calculation, sub) ==
    IF TypeofNumber(calculation.gstAmount) THEN calculation.gstAmount.num
    ELSE MathRound(sub * taxRate.num, taxRate.den)

totalAmount(calculation, sub, gst) ==
    IF TypeofNumber(calculation.totalAmount) THEN calculation.totalAmount.num
    ELSE sub + gst

\* pricingState.calculation without a breakdown
NoCalculation ==
    [subtotal |-> JsUndefined, gstAmount |-> JsUndefined, totalAmount |-> JsUndefined]

\* the page before its first render
NoPage ==
    [order |-> <<>>, files |-> <<>>, calculation |-> NoCalculation, renders |-> 0,
     items |-> <<>>, subtotal |-> 0, gstAmount |-> 0, totalAmount |-> 0]

\* one render of the component: the memoized values are computed from
\* pricingState and the files of the documents context
Render ==
    /\ page.renders < MaxRenders
    /\ LET its == items(page.order, page.files)
           sub == subtotal(page.calculation, its)
           gst == gstAmount(page.calculation, sub)
       IN  page' = [page EXCEPT !.renders = @ + 1, !.items = its, !.subtotal = sub,
                                !.gstAmount = gst,
                                !.totalAmount = totalAmount(page.calculation, sub, gst)]
    /\ UNCHANGED <<serverVars, retry, modal>>

Tiers == {Missing, <<"Standard">>, <<"Express">>, <<"Premium">>}
DocumentTypeIds == {<<"d1">>, <<"d2">>, <<"d0">>, <<"zz">>}

\* entries of pricingState.currentOrder: every document type with every tier,
\* and entries with and without a file id, a file name and a document type
OrderItems ==
    [fileId : {Missing}, documentTypeId : DocumentTypeIds, fileName : {Missing}, tier : Tiers]
    \cup [fileId : {Missing, <<"f1">>}, documentTypeId : {Missing, <<"d1">>},
          fileName : {Missing, <<"a.pdf">>}, tier : {Missing}]

\* files of the documents context, with and without an id and a name
ContextFiles ==
    [id : {Missing, <<"f1">>}, name : {Missing, <<"a.pdf">>},
     documentTypeId : {<<"d1">>}, tier : {Missing, <<"Express">>}]
    \cup [id : {Missing}, name : {Missing}, documentTypeId : {<<"d2">>, <<"zz">>},
          tier : {<<"Express">>}]

ListsOf(S, n) == UNION {[1..m -> S] : m \in 0..n}

\* the order and the files the page is opened with: one of them, or one
\* entry of each
PageInputs ==
    {<<o, <<>>>> : o \in ListsOf(OrderItems, MaxItems)}
    \cup {<<<<>>, f>> : f \in ListsOf(ContextFiles, MaxItems)}
    \cup {<<<<o>>, <<f>>>> : o \in OrderItems, f \in ContextFiles}

\* breakdowns computed by the server: any of the three amounts, or none
Calculations ==
    [subtotal : {JsUndefined, JsNum(0), JsNum(500)},
     gstAmount : {JsUndefined, JsNum(90)},
     totalAmount : {JsUndefined, JsNum(590)}]

(***************************************************************************)
(* Payment page (unnamed/part_001): withRetry                              *)
(***************************************************************************)
MaxRetries == 3

\* the default values of the parameters retries and delayMs
DefaultRetries == 2
DefaultDelayMs == 600

\* the value of a parameter with a default: the default for undefined
ParamOr(arg, default) == IF arg.type = "undefined" THEN default ELSE arg.num

\* delayMs * 1.5, on the fraction delayMs
Backoff(delayMs) == [num |-> delayMs.num * 3, den |-> delayMs.den * 2]

\* a helper that gives up only when retries is below zero
Exhausted_BelowZero(retries) == retries < 0

\* if (retries <= 0) throw err
Exhausted(retries) == retries <= 0

\* no call of withRetry is in progress
NoRetry ==
    [pc |-> "none", args |-> [retries |-> JsUndefined, delayMs |-> JsUndefined],
     retries |-> 0, delayMs |-> [num |-> 0, den |-> 1], calls |-> 0, failed |-> <<>>,
     waits |-> <<>>, outcome |-> [kind |-> "none", of |-> 0]]

\* withRetry(fn, retries, delayMs) is entered: the parameters take their
\* values or defaults, and fn is invoked
Call ==
    /\ retry.pc = "entered"
    /\ retry' = [retry EXCEPT !.pc = "pending",
                              !.retries = ParamOr(retry.args.retries, DefaultRetries),
                              !.delayMs = [num |-> ParamOr(retry.args.delayMs, DefaultDelayMs),
                                           den |-> 1],
                              !.calls = 1]
    /\ UNCHANGED <<serverVars, page, modal>>

\* the promise of the invocation in progress settles.  Fulfilled: withRetry
\* returns its value.  Rejected: the error is thrown if no retry is left,
\* otherwise the timer of delayMs is set.
Settle(fulfilled) ==
    /\ retry.pc = "pending"
    /\ IF fulfilled
       THEN retry' = [retry EXCEPT !.pc = "resolved",
                                   !.outcome = [kind |-> "value", of |-> retry.calls]]
       ELSE IF Exhausted(retry.retries)
       THEN retry' = [retry EXCEPT !.pc = "rejected",
                                   !.failed = Append(@, retry.calls),
                                   !.outcome = [kind |-> "error", of |-> retry.calls]]
       ELSE retry' = [retry EXCEPT !.pc = "waiting",
                                   !.failed = Append(@, retry.calls),
                                   !.waits = Append(@, retry.delayMs)]
    /\ UNCHANGED <<serverVars, page, modal>>

\* the timer fires: withRetry(fn, retries - 1, delayMs * 1.5) invokes fn
Timeout ==
    /\ retry.pc = "waiting"
    /\ retry' = [retry EXCEPT !.pc = "pending",
                              !.retries = @ - 1,
                              !.delayMs = Backoff(@),
                              !.calls = @ + 1]
    /\ UNCHANGED <<serverVars, page, modal>>

\* the waits a caller passes, in milliseconds
Delays == {1, 600}

RetryArgs ==
    [retries : {JsUndefined} \cup {JsNum(n) : n \in 0..MaxRetries},
     delayMs : {JsUndefined} \cup {JsNum(d) : d \in Delays}]

(***************************************************************************)
(* AuthService: requests in progress.  A handler runs up to its next await *)
(* in one step; steps of different requests interleave.                    *)
(***************************************************************************)
MaxRequests == 2

\* the request k of inflight is a call of op waiting at pc
At(k, op, pc) ==
    k \in 1..Len(inflight) /\ inflight[k].op = op /\ inflight[k].pc = pc

\* the handler of the request returned or threw
Returned(req, result) == [req EXCEPT !.pc = "done", !.result = result]

\* registerUser(userData) is called
\* a call of registerUser that awaits its first store call
RegisterUserRequest(email, mobile) ==
    [op |-> "registerUser", pc |-> "findOne", email |-> email, mobile |-> mobile,
     verificationId |-> NoId, result |-> "pending"]

registerUser_call(email, mobile) ==
    /\ Len(inflight) < MaxRequests
    /\ inflight' = Append(inflight, RegisterUserRequest(email, mobile))
    /\ UNCHANGED <<users, verifs, issued, now, last, uploadVars, clientVars>>

\* await User.findOne({ $or: [{ email }, { mobile }] }) and the throw
registerUser_findOne(k) ==
    /\ At(k, "registerUser", "findOne")
    /\ inflight' = [inflight EXCEPT ![k] =
          IF UserIndexByEmailOrMobile(@.email, @.mobile) # 0
          THEN Returned(@, ErrExists)
          ELSE [@ EXCEPT !.pc = "create"]]
    /\ UNCHANGED <<users, verifs, issued, now, last, uploadVars, clientVars>>

\* await User.generateUserId(), await bcrypt.hash(...), await User.create(...)
registerUser_create(k, tempPassword) ==
    /\ At(k, "registerUser", "create")
    /\ Len(users) < MaxUsers
    /\ users' = Append(users,
          [id |-> Len(users) + 1, email |-> inflight[k].email, mobile |-> inflight[k].mobile,
           password |-> bcryptHash(tempPassword),
           isEmailVerified |-> FALSE, lastLogin |-> NoDate, isActive |-> TRUE])
    /\ inflight' = [inflight EXCEPT ![k].pc = "createVerification"]
    /\ UNCHANGED <<verifs, issued, now, last, uploadVars, clientVars>>

\* await EmailVerification.create(...) and the return
registerUser_createVerification(k, r) ==
    /\ At(k, "registerUser", "createVerification")
    /\ CanIssue
    /\ LET rec == NewRecord(inflight[k].email, GenerateOtp(r), NewVerificationId, now)
       IN  /\ verifs' = Append(verifs, rec)
           /\ Issue(rec, "registerUser")
           /\ inflight' = [inflight EXCEPT ![k] =
                 Returned([@ EXCEPT !.verificationId = rec.verificationId], Ok)]
    /\ UNCHANGED <<users, now, last, uploadVars, clientVars>>

\* identifiers drawn by overlapping requests: one more than MaxIds, for a
\* registration followed by two resends
MaxRaceIds == 3

ResendOtpRequest(email) ==
    [op |-> "resendOtp", pc |-> "findOne", email |-> email,
     verificationId |-> NoId, otp |-> <<>>, result |-> "pending"]

resendOtp_call(email) ==
    /\ Len(inflight) < MaxRequests
    /\ inflight' = Append(inflight, ResendOtpRequest(email))
    /\ UNCHANGED <<authVars, last, uploadVars, clientVars>>

\* await User.findOne({ email }) returns: the two early throws, or the
\* handler goes on to deleteMany
resendOtp_findOne(k) ==
    /\ At(k, "resendOtp", "findOne")
    /\ inflight' = [inflight EXCEPT ![k] =
          IF ResendRejection(@.email) # Ok THEN Returned(@, ResendRejection(@.email))
          ELSE [@ EXCEPT !.pc = "deleteMany"]]
    /\ UNCHANGED <<authVars, last, uploadVars, clientVars>>

\* await EmailVerification.deleteMany({ email })
resendOtp_deleteMany(k) ==
    /\ At(k, "resendOtp", "deleteMany")
    /\ verifs' = PurgeEmail(verifs, inflight[k].email)
    /\ inflight' = [inflight EXCEPT ![k].pc = "create"]
    /\ UNCHANGED <<users, issued, now, last, uploadVars, clientVars>>

\* await EmailVerification.create(...) and the return of { verificationId, email }
resendOtp_create(k, r) ==
    /\ At(k, "resendOtp", "create")
    /\ Cardinality(DOMAIN issued) < MaxRaceIds
    /\ LET rec == NewRecord(inflight[k].email, GenerateOtp(r), NewVerificationId, now)
       IN  /\ verifs' = Append(verifs, rec)
           /\ Issue(rec, "resendOtp")
           /\ inflight' = [inflight EXCEPT ![k] =
                 Returned([@ EXCEPT !.verificationId = rec.verificationId,
                                    !.otp = rec.otp], Ok)]
    /\ UNCHANGED <<users, now, last, uploadVars, clientVars>>

VerifyOtpRequest(verificationId, otp) ==
    [op |-> "verifyOtp", pc |-> "findOne", verificationId |-> verificationId,
     otp |-> otp, email |-> "", token |-> NoToken, result |-> "pending"]

verifyOtp_call(verificationId, otp) ==
    /\ Len(inflight) < MaxRequests
    /\ inflight' = Append(inflight, VerifyOtpRequest(verificationId, otp))
    /\ UNCHANGED <<authVars, last, uploadVars, clientVars>>

\* await EmailVerification.findOne({ verificationId, expiresAt }) returns,
\* then the comparison of the code
verifyOtp_findOne(k) ==
    /\ At(k, "verifyOtp", "findOne")
    /\ LET r == FindVerification(inflight[k].verificationId)
       IN  inflight' = [inflight EXCEPT ![k] =
             IF r = 0 THEN Returned(@, ErrInvalidOrExpired)
             ELSE IF ~OtpMatches(verifs[r], @.otp) THEN Returned(@, ErrInvalidOtp)
             ELSE [@ EXCEPT !.email = verifs[r].email, !.pc = "findUser"]]
    /\ UNCHANGED <<authVars, last, uploadVars, clientVars>>

\* await User.findOne({ email: verificationRecord.email }) returns
verifyOtp_findUser(k) ==
    /\ At(k, "verifyOtp", "findUser")
    /\ inflight' = [inflight EXCEPT ![k] =
          IF UserIndexByEmail(@.email) = 0 THEN Returned(@, ErrUserNotFound)
          ELSE [@ EXCEPT !.pc = "save"]]
    /\ UNCHANGED <<authVars, last, uploadVars, clientVars>>

\* user.isEmailVerified = true; user.lastLogin = new Date(); await user.save()
verifyOtp_save(k) ==
    /\ At(k, "verifyOtp", "save")
    /\ LET i == UserIndexByEmail(inflight[k].email)
       IN  users' = [users EXCEPT ![i].isEmailVerified = TRUE, ![i].lastLogin = now]
    /\ inflight' = [inflight EXCEPT ![k].pc = "deleteOne"]
    /\ UNCHANGED <<verifs, issued, now, last, uploadVars, clientVars>>

\* await EmailVerification.deleteOne({ verificationId }), generateToken, return
verifyOtp_deleteOne(k) ==
    /\ At(k, "verifyOtp", "deleteOne")
    /\ verifs' = RemoveVerification(verifs, inflight[k].verificationId)
    /\ LET i == UserIndexByEmail(inflight[k].email)
       IN  inflight' = [inflight EXCEPT ![k] =
             Returned([@ EXCEPT !.token = generateToken(users[i].id)], Ok)]
    /\ UNCHANGED <<users, issued, now, last, uploadVars, clientVars>>

(***************************************************************************)
(* UploadController.uploadFiles: requests in progress                      *)
(***************************************************************************)
\* a store without the unique index on documentHash
HashIndexRejects_Never(docs, documentHash) == FALSE

\* the unique index on Document.documentHash ("hash uniqueness enforced at
\* insert time"): an insert of a hash that is stored is rejected
HashIndexRejects(docs, documentHash) == FindByHash(docs, documentHash) # 0

\* the loop goes to the next file, or the response is sent after the last
NextFile(req) ==
    IF req.i < Len(req.files) THEN [req EXCEPT !.i = @ + 1, !.pc = "findOne"]
    ELSE [req EXCEPT !.pc = "done",
                     !.result = IF Success(req.uploaded) THEN 201 ELSE 400]

\* a request of a verified user with files and parseable metadata arrives:
\* the middleware has stored the files, the handler passes its gates, reads
\* and hashes the first file and awaits Document.findOne
uploadFiles_call(u, inputs) ==
    /\ Len(inflight) < MaxRequests
    /\ Len(inputs) > 0
    /\ nextPath + Len(inputs) - 1 <= MaxFiles
    /\ u \in 1..Len(users)
    /\ IsEmailVerified(users[u])
    /\ nextPath' = nextPath + Len(inputs)
    /\ disk' = disk \cup {ReqFiles(inputs)[i].path : i \in 1..Len(inputs)}
    /\ inflight' = Append(inflight,
          [op |-> "uploadFiles", pc |-> "findOne", userId |-> users[u].id,
           files |-> ReqFiles(inputs), i |-> 1, uploaded |-> <<>>, errors |-> <<>>,
           result |-> 0])
    /\ UNCHANGED <<authVars, last, documents, clientVars>>

\* await Document.findOne({ documentHash }) returns; a duplicate is unlinked
\* and reported, and the loop continues
uploadFiles_findOne(k) ==
    /\ At(k, "uploadFiles", "findOne")
    /\ LET req == inflight[k]
           file == req.files[req.i]
       IN  IF FindByHash(documents, Sha256(file.content)) # 0
           THEN /\ disk' = disk \ {file.path}
                /\ inflight' = [inflight EXCEPT ![k] =
                      NextFile([req EXCEPT !.errors = Append(@, DuplicateError(file))])]
           ELSE /\ inflight' = [inflight EXCEPT ![k].pc = "create"]
                /\ UNCHANGED disk
    /\ UNCHANGED <<authVars, last, documents, nextPath, clientVars>>

\* await Document.generateUDIN(), await Document.create(...): the record is
\* inserted and pushed to uploadedDocuments, or the insert throws and the
\* catch block unlinks the file and reports it
uploadFiles_create(k) ==
    /\ At(k, "uploadFiles", "create")
    /\ LET req == inflight[k]
           file == req.files[req.i]
           document == [userId |-> req.userId, udin |-> Len(documents) + 1,
                        filePath |-> file.path, originalName |-> file.originalname,
                        documentHash |-> Sha256(file.content)]
       IN  IF HashIndexRejects(documents, document.documentHash)
           THEN LET acc == Catch([disk |-> disk, errors |-> req.errors], file)
                IN  /\ disk' = acc.disk
                    /\ inflight' = [inflight EXCEPT ![k] =
                          NextFile([req EXCEPT !.errors = acc.errors])]
                    /\ UNCHANGED documents
           ELSE /\ documents' = Append(documents, document)
                /\ inflight' = [inflight EXCEPT ![k] =
                      NextFile([req EXCEPT !.uploaded = Append(@, document)])]
                /\ UNCHANGED disk
    /\ UNCHANGED <<authVars, last, nextPath, clientVars>>

\* batches whose files can all be read
ReadableBatches == {b \in Batches : \A i \in 1..Len(b) : b[i].fault = "none"}

(***************************************************************************)
(* AuthService, the copy in client/pages/Signup.tsx                        *)
(***************************************************************************)
\* registerUser of the copy: the User is created with isEmailVerified: true
\* and no EmailVerification record is created; emailVerificationToken and
\* emailVerificationExpires are written and read by nothing else
registerUser_SecondCopy(email, mobile, tempPassword) ==
    /\ IF UserIndexByEmailOrMobile(email, mobile) # 0
       THEN /\ last' = Result("registerUser", email, NoId, <<>>, ErrExists, NoToken)
            /\ UNCHANGED users
       ELSE /\ Len(users) < MaxUsers
            /\ users' = Append(users,
                  [id |-> Len(users) + 1, email |-> email, mobile |-> mobile,
                   password |-> bcryptHash(tempPassword),
                   isEmailVerified |-> TRUE, lastLogin |-> NoDate,
                   isActive |-> TRUE])
            /\ last' = Result("registerUser", email, NoId, <<>>, Ok, NoToken)
    /\ UNCHANGED <<verifs, issued, now>>
    /\ UNCHANGED <<uploadVars, clientVars, inflight>>

(***************************************************************************)
(* EmailVerificationModal (client/pages/Signup.tsx)                        *)
(***************************************************************************)
\* useState(120) of the countdown
TimerStart == 120

\* Array(6).fill("")
OtpLength == 6

\* a typed character that is not a digit; the digits are 0..9
NonDigit == 10

\* a cell of the code is "" (<<>>) or one digit
EmptyOtp == [i \in 1..OtpLength |-> <<>>]

\* the page before the modal is shown: the parent's verificationId,
\* formData.email and emailVerified, and the state a mounted modal starts
\* with; resent is history: the identifier the last completed resend returned
NoModal ==
    [shown |-> FALSE, verificationId |-> NoId, email |-> "", emailVerified |-> FALSE,
     otp |-> EmptyOtp, timer |-> TimerStart, canResend |-> FALSE,
     isVerifying |-> FALSE, isResending |-> FALSE, resent |-> NoId]

\* the parent's state is kept when the modal is unmounted
Unmounted(m) ==
    [NoModal EXCEPT !.verificationId = m.verificationId, !.email = m.email,
                    !.emailVerified = m.emailVerified, !.resent = m.resent]

\* setVerificationId(id); setShowModal(true): the modal is mounted
Mounted(m, verificationId) ==
    [Unmounted(m) EXCEPT !.shown = TRUE, !.verificationId = verificationId,
                         !.resent = NoId]

IsDigit(c) == c \in 0..9

\* value.replace(/[^0-9]/g, "")
StripNonDigits(value) == SelectSeq(value, IsDigit)

RECURSIVE JoinCells(_)
\* otp.join("")
JoinCells(cells) ==
    IF Len(cells) = 0 THEN <<>> ELSE Head(cells) \o JoinCells(Tail(cells))

\* disabled={isVerifying || otp.some((digit) => digit === "")}
VerifyDisabled(m) == m.isVerifying \/ \E i \in 1..OtpLength : m.otp[i] = <<>>

\* disabled={!canResend || isResending}
ResendDisabled(m) == ~m.canResend \/ m.isResending

\* the response of a call is consumed
Consume(k) == inflight' = SelectSeqBy(inflight, (1..Len(inflight)) \ {k})

\* the Verify button of the form: createAccount is called while the page has
\* no other call outstanding
handleEmailOtp(email, mobile) ==
    /\ ~modal.shown
    /\ ~modal.emailVerified
    /\ inflight = <<>>
    /\ inflight' = <<RegisterUserRequest(email, mobile)>>
    /\ modal' = [modal EXCEPT !.email = email]
    /\ UNCHANGED <<authVars, last, uploadVars, page, retry>>

\* createAccount has settled: with a verificationId the modal is shown
handleEmailOtp_settled(k) ==
    /\ At(k, "registerUser", "done")
    /\ modal' = IF inflight[k].result = Ok /\ inflight[k].verificationId # NoId
                THEN Mounted(modal, inflight[k].verificationId)
                ELSE modal
    /\ Consume(k)
    /\ UNCHANGED <<authVars, last, uploadVars, page, retry>>

\* an interval that is not cleared at 0
TimerTick_BelowZero ==
    /\ modal.shown
    /\ modal.timer > -1
    /\ modal' = [modal EXCEPT !.timer = @ - 1]
    /\ UNCHANGED <<serverVars, page, retry>>

\* the interval set by the effect while timer is not 0, and the effect that
\* follows the new timer
TimerTick ==
    /\ modal.shown
    /\ modal.timer # 0
    /\ modal' = [modal EXCEPT !.timer = @ - 1,
                              !.canResend = IF modal.timer - 1 = 0 THEN TRUE ELSE @]
    /\ UNCHANGED <<serverVars, page, retry>>

handleInputChange(index, raw) ==
    /\ modal.shown
    /\ LET value == StripNonDigits(raw)
       IN  modal' = IF Len(value) <= 1 THEN [modal EXCEPT !.otp[index] = value] ELSE modal
    /\ UNCHANGED <<serverVars, page, retry>>

\* the two early returns of handleVerifyOtp
SendsVerify(m) == Len(JoinCells(m.otp)) = OtpLength /\ m.verificationId # NoId

handleVerifyOtp ==
    /\ modal.shown
    /\ ~VerifyDisabled(modal)
    /\ IF ~SendsVerify(modal)
       THEN UNCHANGED <<inflight, modal>>
       ELSE /\ Len(inflight) < MaxRequests
            /\ inflight' = Append(inflight,
                  VerifyOtpRequest(modal.verificationId, JoinCells(modal.otp)))
            /\ modal' = [modal EXCEPT !.isVerifying = TRUE]
    /\ UNCHANGED <<authVars, last, uploadVars, page, retry>>

\* verifyEmailOtp has settled: onVerify and onClose on success, the error
\* otherwise, and setIsVerifying(false)
handleVerifyOtp_settled(k) ==
    /\ At(k, "verifyOtp", "done")
    /\ modal' = IF inflight[k].result = Ok
                THEN [Unmounted(modal) EXCEPT !.emailVerified = TRUE]
                ELSE IF modal.shown THEN [modal EXCEPT !.isVerifying = FALSE]
                ELSE modal
    /\ Consume(k)
    /\ UNCHANGED <<authVars, last, uploadVars, page, retry>>

handleResendOtp ==
    /\ modal.shown
    /\ ~ResendDisabled(modal)
    /\ Len(inflight) < MaxRequests
    /\ inflight' = Append(inflight, ResendOtpRequest(modal.email))
    /\ modal' = [modal EXCEPT !.isResending = TRUE]
    /\ UNCHANGED <<authVars, last, uploadVars, page, retry>>

\* a resend whose response is not passed to onVerificationIdUpdate
Resent_KeepId(m, verificationId) ==
    [m EXCEPT !.resent = verificationId, !.timer = TimerStart, !.canResend = FALSE]

\* onVerificationIdUpdate(response.data.verificationId); setTimer(120);
\* setCanResend(false)
Resent(m, verificationId) ==
    [m EXCEPT !.verificationId = verificationId, !.resent = verificationId,
              !.timer = TimerStart, !.canResend = FALSE]

\* resendEmailOtp has settled; the state of an unmounted modal is not kept
handleResendOtp_settled(k) ==
    /\ At(k, "resendOtp", "done")
    /\ LET after == IF inflight[k].result = Ok
                    THEN Resent(modal, inflight[k].verificationId)
                    ELSE modal
       IN  modal' = IF modal.shown THEN [after EXCEPT !.isResending = FALSE]
                    ELSE Unmounted(after)
    /\ Consume(k)
    /\ UNCHANGED <<authVars, last, uploadVars, page, retry>>

\* the close button of the modal
onClose ==
    /\ modal.shown
    /\ modal' = Unmounted(modal)
    /\ UNCHANGED <<serverVars, page, retry>>

\* the server after start-up: empty collections, empty temporary storage, no
\* request in progress
InitServer ==
    /\ users = <<>>
    /\ verifs = <<>>
    /\ issued = <<>>
    /\ now = 0
    /\ last = Result("init", "", NoId, <<>>, Ok, NoToken)
    /\ documents = <<>>
    /\ disk = {}
    /\ nextPath = 1
    /\ inflight = <<>>

Init ==
    /\ InitServer
    /\ page = NoPage
    /\ retry = NoRetry
    /\ modal = NoModal

Codes == {GenerateOtp(r) : r \in RandSamples}

Next ==
    \/ \E e \in Emails, m \in Mobiles, p \in TempPasswords, r \in RandSamples :
          registerUser(e, m, p, r)
    \/ \E e \in Emails, p \in LoginPasswords : loginUser(e, p)
    \/ \E v \in 1..(MaxIds + 1), c \in Codes : verifyOtp(v, c)
    \/ \E e \in Emails, r \in RandSamples : sendOtp(e, r)
    \/ \E e \in Emails, r \in RandSamples : resendOtp(e, r)
    \/ \E t \in ClockTargets : Tick(t)

Spec == Init /\ [][Next]_vars

\* The upload pipeline, with the registrations and verifications that give it
\* verified and unverified users
NextUpload ==
    \/ \E e \in Emails : registerUser(e, e, "t1", 0)
    \/ \E v \in 1..MaxIds : verifyOtp(v, GenerateOtp(0))
    \/ \E u \in 1..MaxUsers, b \in Batches, g \in Gates :
          uploadFiles(u, b, g.validationOk, g.metaOk)

SpecUpload == Init /\ [][NextUpload]_vars

\* Overlapping registerUser requests
NextRegisterRace ==
    \/ \E e \in Emails, m \in Mobiles : registerUser_call(e, m)
    \/ \E k \in 1..MaxRequests : registerUser_findOne(k)
    \/ \E k \in 1..MaxRequests, p \in TempPasswords : registerUser_create(k, p)
    \/ \E k \in 1..MaxRequests, r \in RandSamples : registerUser_createVerification(k, r)

SpecRegisterRace == Init /\ [][NextRegisterRace]_vars

\* Overlapping resendOtp requests after registrations
NextResendRace ==
    \/ \E e \in Emails : registerUser(e, e, "t1", 0)
    \/ \E e \in Emails : resendOtp_call(e)
    \/ \E k \in 1..MaxRequests : resendOtp_findOne(k)
    \/ \E k \in 1..MaxRequests : resendOtp_deleteMany(k)
    \/ \E k \in 1..MaxRequests, r \in RandSamples : resendOtp_create(k, r)

SpecResendRace == Init /\ [][NextResendRace]_vars

\* Overlapping verifyOtp requests after registrations
NextVerifyRace ==
    \/ \E e \in Emails : registerUser(e, e, "t1", 0)
    \/ \E v \in 1..MaxIds, r \in RandSamples : verifyOtp_call(v, GenerateOtp(r))
    \/ \E k \in 1..MaxRequests : verifyOtp_findOne(k)
    \/ \E k \in 1..MaxRequests : verifyOtp_findUser(k)
    \/ \E k \in 1..MaxRequests : verifyOtp_save(k)
    \/ \E k \in 1..MaxRequests : verifyOtp_deleteOne(k)

SpecVerifyRace == Init /\ [][NextVerifyRace]_vars

\* Both copies of AuthService in use, with uploads
NextTwoCopies ==
    \/ \E e \in Emails : registerUser(e, e, "t1", 0)
    \/ \E e \in Emails : registerUser_SecondCopy(e, e, "t1")
    \/ \E e \in Emails : loginUser(e, "t1")
    \/ \E v \in 1..MaxIds : verifyOtp(v, GenerateOtp(0))
    \/ \E e \in Emails : sendOtp(e, 0)
    \/ \E e \in Emails : resendOtp(e, 0)
    \/ \E u \in 1..MaxUsers, b \in ReadableBatches : uploadFiles(u, b, TRUE, TRUE)

SpecTwoCopies == Init /\ [][NextTwoCopies]_vars

\* what the user types: a digit, a letter, nothing, two characters
InputValues == {<<>>, <<NonDigit>>, <<0>>, <<1>>, <<9>>, <<1, 9>>}

\* the codes the user types, cell after cell: the code of the server's first
\* sample, and the same with another last digit
TypedCodes == {GenerateOtp(0), [GenerateOtp(0) EXCEPT ![OtpLength] = 9]}

IsCodePrefix(cells) ==
    \E code \in TypedCodes, n \in 0..OtpLength :
       cells = [i \in 1..OtpLength |-> IF i <= n THEN <<code[i]>> ELSE <<>>]

\* The sign-up page with its modal, and the server behind it
NextModal ==
    \/ handleEmailOtp("a@x", "m1")
    \/ \E k \in 1..MaxRequests : handleEmailOtp_settled(k)
    \/ TimerTick
    \/ \E i \in 1..OtpLength, v \in InputValues :
          handleInputChange(i, v) /\ IsCodePrefix(modal'.otp)
    \/ handleVerifyOtp
    \/ \E k \in 1..MaxRequests : handleVerifyOtp_settled(k)
    \/ handleResendOtp
    \/ \E k \in 1..MaxRequests : handleResendOtp_settled(k)
    \/ onClose
    \/ \E k \in 1..MaxRequests : registerUser_findOne(k)
    \/ \E k \in 1..MaxRequests : registerUser_create(k, "t1")
    \/ \E k \in 1..MaxRequests : registerUser_createVerification(k, 0)
    \/ \E k \in 1..MaxRequests : resendOtp_findOne(k)
    \/ \E k \in 1..MaxRequests : resendOtp_deleteMany(k)
    \/ \E k \in 1..MaxRequests : resendOtp_create(k, 0)
    \/ \E k \in 1..MaxRequests : verifyOtp_findOne(k)
    \/ \E k \in 1..MaxRequests : verifyOtp_findUser(k)
    \/ \E k \in 1..MaxRequests : verifyOtp_save(k)
    \/ \E k \in 1..MaxRequests : verifyOtp_deleteOne(k)

SpecModal == Init /\ [][NextModal]_vars

\* Overlapping uploadFiles requests of verified users
NextUploadRace ==
    \/ \E e \in Emails : registerUser(e, e, "t1", 0)
    \/ \E v \in 1..MaxIds : verifyOtp(v, GenerateOtp(0))
    \/ \E u \in 1..MaxUsers, b \in ReadableBatches : uploadFiles_call(u, b)
    \/ \E k \in 1..MaxRequests : uploadFiles_findOne(k)
    \/ \E k \in 1..MaxRequests : uploadFiles_create(k)

SpecUploadRace == Init /\ [][NextUploadRace]_vars

\* The payment page, opened with an order, files and a breakdown, and rendered
InitPayment ==
    /\ InitServer
    /\ retry = NoRetry
    /\ modal = NoModal
    /\ page \in {[NoPage EXCEPT !.order = in[1], !.files = in[2], !.calculation = c] :
                    in \in PageInputs, c \in Calculations}

NextPayment == Render

SpecPayment == InitPayment /\ [][NextPayment]_vars

\* One call of withRetry.  The invocations of fn settle and the timers fire.
InitRetry ==
    /\ InitServer
    /\ page = NoPage
    /\ modal = NoModal
    /\ retry \in {[NoRetry EXCEPT !.pc = "entered", !.args = a] : a \in RetryArgs}

NextRetry ==
    \/ Call
    \/ \E fulfilled \in BOOLEAN : Settle(fulfilled)
    \/ Timeout

SpecRetry ==
    /\ InitRetry
    /\ [][NextRetry]_vars
    /\ WF_vars(Call)
    /\ WF_vars(\E fulfilled \in BOOLEAN : Settle(fulfilled))
    /\ WF_vars(Timeout)

(***************************************************************************)
(* Properties of verifyOtp                                                 *)
(***************************************************************************)
\* the records a verifyOtp(v, .) issued at time t finds: identifier v, not expired
Live(vs, v, t) == {i \in 1..Len(vs) : vs[i].verificationId = v /\ vs[i].expiresAt > t}

HasUser(us, email) == \E k \in 1..Len(us) : us[k].email = email

VerifiedUser(us, email) == \E k \in 1..Len(us) : us[k].email = email /\ us[k].isEmailVerified

\* C1, as stated: verifyOtp fails in exactly two cases (no unexpired record
\* with the identifier; the record's code differs from the submitted code) and
\* succeeds in every other case, also for a record whose email has no User:
\* the user is verified, the record is deleted and a token is returned.
C1_FailsInExactlyTwoCases ==
    [][ last'.op = "verifyOtp" =>
          LET v == last'.verificationId
              live == Live(verifs, v, now)
          IN  IF live = {} THEN last'.result = ErrInvalidOrExpired
              ELSE IF \E i \in live : verifs[i].otp # last'.otp THEN last'.result = ErrInvalidOtp
              ELSE /\ last'.result = Ok
                   /\ last'.token # NoToken
                   /\ \A i \in live : VerifiedUser(users', verifs[i].email)
                   /\ \A j \in 1..Len(verifs') : verifs'[j].verificationId # v ]_vars

\* C1, amended: verifyOtp fails in exactly three cases: no unexpired record has
\* the identifier ("Invalid or expired OTP"), the record's code differs from the
\* submitted code ("Invalid OTP"), or no User has the record's email ("User not
\* found").  In every other case it succeeds: the user owning the record's email
\* has isEmailVerified = true, the record is deleted and a token is returned.
C1_FailsInExactlyThreeCases ==
    [][ last'.op = "verifyOtp" =>
          LET v == last'.verificationId
              live == Live(verifs, v, now)
          IN  IF live = {} THEN last'.result = ErrInvalidOrExpired
              ELSE IF \E i \in live : verifs[i].otp # last'.otp THEN last'.result = ErrInvalidOtp
              ELSE IF \E i \in live : ~HasUser(users, verifs[i].email)
              THEN /\ last'.result = ErrUserNotFound
                   /\ last'.token = NoToken
                   /\ users' = users /\ verifs' = verifs
              ELSE /\ last'.result = Ok
                   /\ last'.token # NoToken
                   /\ \A i \in live : VerifiedUser(users', verifs[i].email)
                   /\ \A j \in 1..Len(verifs') : verifs'[j].verificationId # v ]_vars

\* a correct, unexpired code of a record issued by sendOtp was refused because
\* no User has the record's email
C1_Witness ==
    /\ last.op = "verifyOtp"
    /\ last.result = ErrUserNotFound
    /\ \E i \in Live(verifs, last.verificationId, now) :
          verifs[i].otp = last.otp /\ ~HasUser(users, verifs[i].email)

\* C2: verifyOtp with an identifier that matches no record, or only a record
\* whose expiresAt is not later than the current time, fails with "Invalid or
\* expired OTP", returns no token and leaves every User record and every
\* EmailVerification record unchanged.
C2_UnknownOrExpiredFailsWithoutMutation ==
    [][ ( /\ last'.op = "verifyOtp"
          /\ \A i \in 1..Len(verifs) :
                verifs[i].verificationId = last'.verificationId => verifs[i].expiresAt <= now )
        => /\ last'.result = ErrInvalidOrExpired
           /\ last'.token = NoToken
           /\ users' = users
           /\ verifs' = verifs ]_vars

\* the correct code of an expired record of an unverified user was refused and
\* the record is still in the store
C2_Witness ==
    /\ last.op = "verifyOtp"
    /\ last.result = ErrInvalidOrExpired
    /\ \E i \in 1..Len(verifs) :
          /\ verifs[i].verificationId = last.verificationId
          /\ verifs[i].otp = last.otp
          /\ verifs[i].expiresAt <= now
          /\ HasUser(users, verifs[i].email)
          /\ ~VerifiedUser(users, verifs[i].email)

\* C3, as stated: right after a verifyOtp that failed with "Invalid OTP" the
\* record is still in the store, unexpired, and a verifyOtp with its correct
\* code succeeds.
C3_CorrectCodeStillSucceeds ==
    (last.op = "verifyOtp" /\ last.result = ErrInvalidOtp)
    => \E i \in Live(verifs, last.verificationId, now) :
          VerifyOutcome(last.verificationId, verifs[i].otp) = Ok

\* C3, amended: verifyOtp with the identifier of an unexpired record and a
\* wrong code fails with "Invalid OTP" and changes nothing (the record keeps its
\* code and expiry, no user changes), so after any number of wrong attempts a
\* verifyOtp with the correct code made before expiry succeeds if a User with
\* the record's email exists, and fails with "User not found" otherwise.
C3_WrongCodeChangesNothing ==
    [][ ( /\ last'.op = "verifyOtp"
          /\ \E i \in Live(verifs, last'.verificationId, now) : verifs[i].otp # last'.otp )
        => /\ last'.result = ErrInvalidOtp
           /\ last'.token = NoToken
           /\ users' = users
           /\ verifs' = verifs
           /\ now' = now
           /\ \A i \in Live(verifs, last'.verificationId, now) :
                 VerifyOutcome(last'.verificationId, verifs[i].otp) =
                    IF HasUser(users, verifs[i].email) THEN Ok ELSE ErrUserNotFound ]_vars

\* a wrong code was refused for the unexpired record of an unverified user, and
\* the correct code would verify now
C3_Witness ==
    /\ last.op = "verifyOtp"
    /\ last.result = ErrInvalidOtp
    /\ \E i \in Live(verifs, last.verificationId, now) :
          /\ verifs[i].otp # last.otp
          /\ HasUser(users, verifs[i].email)
          /\ ~VerifiedUser(users, verifs[i].email)
          /\ VerifyOutcome(last.verificationId, verifs[i].otp) = Ok

(***************************************************************************)
(* Properties of sendOtp, registerUser and resendOtp                       *)
(***************************************************************************)
RecordsOf(vs, email) == {i \in 1..Len(vs) : vs[i].email = email}

NoRecord(vs, v) == \A i \in 1..Len(vs) : vs[i].verificationId # v

C5_ExactlyOneRecordAfterIssue ==
    [][ (last'.op \in {"sendOtp", "registerUser"} /\ last'.result = Ok)
        => /\ Cardinality(RecordsOf(verifs', last'.email)) = 1
           /\ last'.verificationId \notin DOMAIN issued ]_vars

\* C5, amended: a successful sendOtp or registerUser for an email adds exactly
\* one EmailVerification record for that email, whose identifier differs from
\* every identifier issued earlier, and removes none: the records issued for the
\* email before stay in the store.
C5_ExactlyOneRecordAdded ==
    [][ (last'.op \in {"sendOtp", "registerUser"} /\ last'.result = Ok)
        => /\ last'.verificationId \notin DOMAIN issued
           /\ NoRecord(verifs, last'.verificationId)
           /\ Len(verifs') = Len(verifs) + 1
           /\ SubSeq(verifs', 1, Len(verifs)) = verifs
           /\ verifs'[Len(verifs')].email = last'.email
           /\ verifs'[Len(verifs')].verificationId = last'.verificationId
           /\ Cardinality(RecordsOf(verifs', last'.email)) =
                 Cardinality(RecordsOf(verifs, last'.email)) + 1 ]_vars

\* an email holds two records right after a successful sendOtp or registerUser
C5_Witness ==
    /\ last.op \in {"sendOtp", "registerUser"}
    /\ last.result = Ok
    /\ Cardinality(RecordsOf(verifs, last.email)) = 2

\* C6: a successful verifyOtp(id, code) leaves no record with that identifier;
\* an issued identifier that has no record never gets one again, and every
\* verifyOtp with it, whatever the code, fails with "Invalid or expired OTP" and
\* returns no token.
C6_CodeIsSingleUse ==
    [][ \A v \in DOMAIN issued :
          /\ (last'.op = "verifyOtp" /\ last'.result = Ok /\ last'.verificationId = v)
                => NoRecord(verifs', v)
          /\ NoRecord(verifs, v) =>
                /\ NoRecord(verifs', v)
                /\ (last'.op = "verifyOtp" /\ last'.verificationId = v)
                      => (last'.result = ErrInvalidOrExpired /\ last'.token = NoToken) ]_vars

\* the only identifier ever issued was verified, and a second verifyOtp with it,
\* made before its expiry, was refused
C6_Witness ==
    /\ last.op = "verifyOtp"
    /\ last.result = ErrInvalidOrExpired
    /\ DOMAIN issued = {last.verificationId}
    /\ issued[last.verificationId].expiresAt > now
    /\ VerifiedUser(users, issued[last.verificationId].email)

\* C7: sendOtp(email) fails when a User with that email exists, verified or not,
\* and then changes no record; otherwise it appends one record holding the
\* email, a 6-digit code in 100000..999999, a new identifier and
\* expiresAt = now + 15 minutes, and returns that identifier.
C7_SendOtpContract ==
    [][ last'.op = "sendOtp" =>
          IF HasUser(users, last'.email)
          THEN /\ last'.result = ErrExistsEmail
               /\ verifs' = verifs
               /\ users' = users
          ELSE /\ last'.result = Ok
               /\ users' = users
               /\ last'.verificationId \notin DOMAIN issued
               /\ NoRecord(verifs, last'.verificationId)
               /\ Len(last'.otp) = 6
               /\ ToNumber(last'.otp) \in 100000..999999
               /\ verifs' = Append(verifs,
                     [email |-> last'.email, otp |-> last'.otp,
                      verificationId |-> last'.verificationId,
                      expiresAt |-> now + 15 * 60 * 1000]) ]_vars

\* sendOtp was refused for the email of an unverified user
C7_Witness ==
    /\ last.op = "sendOtp"
    /\ last.result = ErrExistsEmail
    /\ HasUser(users, last.email)
    /\ ~VerifiedUser(users, last.email)

\* C8: resendOtp(email) fails when no User has the email and when the User with
\* the email is verified, and in both cases leaves the EmailVerification records
\* as they were.
C8_ResendFailuresPurgeNothing ==
    [][ ( /\ last'.op = "resendOtp"
          /\ (~HasUser(users, last'.email) \/ VerifiedUser(users, last'.email)) )
        => /\ last'.result =
                 (IF HasUser(users, last'.email) THEN ErrAlreadyVerified ELSE ErrNoAccount)
           /\ verifs' = verifs
           /\ users' = users ]_vars

\* resendOtp was refused for a verified user whose email still has a record
C8_Witness ==
    /\ last.op = "resendOtp"
    /\ last.result = ErrAlreadyVerified
    /\ RecordsOf(verifs, last.email) # {}

\* C9: a record's expiresAt is the time of issue + 15 minutes and no step
\* changes a stored record; verifyOtp succeeds only while the current time is
\* strictly less than the record's expiresAt; the passing of time removes no
\* record.
C9_ExpiryIsAbsolute ==
    [][ /\ \A i \in 1..Len(verifs), j \in 1..Len(verifs') :
              verifs[i].verificationId = verifs'[j].verificationId => verifs'[j] = verifs[i]
        /\ \A j \in 1..Len(verifs') :
              NoRecord(verifs, verifs'[j].verificationId)
                 => verifs'[j].expiresAt = now + 15 * 60 * 1000
        /\ (last'.op = "verifyOtp" /\ last'.result = Ok)
              => \E i \in 1..Len(verifs) :
                    /\ verifs[i].verificationId = last'.verificationId
                    /\ now < verifs[i].expiresAt
        /\ last'.op = "tick" => verifs' = verifs ]_vars

\* the correct code of a record of an unverified user was refused at exactly
\* expiresAt, and the record is still in the store
C9_Witness ==
    /\ last.op = "verifyOtp"
    /\ last.result = ErrInvalidOrExpired
    /\ \E i \in 1..Len(verifs) :
          /\ verifs[i].verificationId = last.verificationId
          /\ verifs[i].otp = last.otp
          /\ verifs[i].expiresAt = now
          /\ HasUser(users, verifs[i].email)
          /\ ~VerifiedUser(users, verifs[i].email)

(***************************************************************************)
(* Properties of uploadFiles                                               *)
(***************************************************************************)
\* file k of the last request was accepted: the response lists a record for it
Accepted(resp, k) ==
    \E n \in 1..Len(resp.uploadedFiles) : resp.uploadedFiles[n].filePath = resp.files[k].path

\* the last request passed validation, the verified-email gate and the parsing
\* of its metadata, so its files were processed
Processed(resp) ==
    resp.op = "uploadFiles" /\ resp.status \in {201, 400} /\ resp.totalRequested > 0
    /\ resp.message \in {"Successfully uploaded", "No files were uploaded successfully"}

\* C10: no two Document records have the same content hash; an upload never
\* modifies, replaces or removes a stored Document; and when a processed batch
\* holds the same bytes twice, at most the file processed first is accepted: if
\* it is, the later one creates no record, loses its temporary file and is
\* reported as already uploaded (unless reading it fails first).  The first
\* file with bytes not yet stored is accepted when its processing does not fail.
C10_ContentHashIsUnique ==
    [][ /\ \A i, j \in 1..Len(documents') :
              i # j => documents'[i].documentHash # documents'[j].documentHash
        /\ Len(documents') >= Len(documents)
        /\ SubSeq(documents', 1, Len(documents)) = documents
        /\ Processed(last') =>
              LET files == last'.files
              IN  /\ \A i, j \in 1..Len(files) :
                        (i < j /\ files[i].content = files[j].content /\ Accepted(last', i))
                        => /\ ~Accepted(last', j)
                           /\ files[j].path \notin disk'
                           /\ \A d \in 1..Len(documents') :
                                 documents'[d].filePath # files[j].path
                           /\ files[j].fault # "read" =>
                                 \E n \in 1..Len(last'.errors) :
                                    last'.errors[n] = [kind |-> "already uploaded",
                                                       originalname |-> files[j].originalname]
                  /\ \A i \in 1..Len(files) :
                        ( /\ files[i].fault = "none"
                          /\ \A k \in 1..(i - 1) : files[k].content # files[i].content
                          /\ \A d \in 1..Len(documents) :
                                documents[d].documentHash # Sha256(files[i].content) )
                        => Accepted(last', i) ]_vars

\* a batch of two files with the same bytes: the first was accepted, the second
\* was reported as already uploaded and only one record holds the hash
C10_Witness ==
    /\ Processed(last)
    /\ Len(last.files) = 2
    /\ last.files[1].content = last.files[2].content
    /\ last.files[1].fault = "none" /\ last.files[2].fault = "none"
    /\ Accepted(last, 1)
    /\ ~Accepted(last, 2)
    /\ last.errors = <<[kind |-> "already uploaded", originalname |-> last.files[2].originalname]>>
    /\ Cardinality({d \in 1..Len(documents) :
                      documents[d].documentHash = Sha256(last.files[1].content)}) = 1

\* the per-file errors are pushed in file order: the error of the rejected file
\* k is the one at the number of rejected files among the first k
ErrorIndex(resp, k) == Cardinality({j \in 1..k : ~Accepted(resp, j)})

ErrorOf(resp, k) ==
    IF ErrorIndex(resp, k) \in 1..Len(resp.errors)
    THEN resp.errors[ErrorIndex(resp, k)]
    ELSE [kind |-> "none", originalname |-> ""]

\* the hash of file k is stored when file k is processed: a Document of an
\* earlier request has it, or an earlier file of this batch was accepted with it
StoredWhenProcessed(docs, resp, k) ==
    \/ \E d \in 1..Len(docs) : docs[d].documentHash = Sha256(resp.files[k].content)
    \/ \E j \in 1..(k - 1) :
          resp.files[j].content = resp.files[k].content /\ Accepted(resp, j)

RecordsOfPath(docs, path) == {d \in 1..Len(docs) : docs[d].filePath = path}

\* C11: in a processed batch of a verified user, a file whose hash is stored
\* when it is processed gets the "already uploaded" error, loses its temporary
\* file and creates no record; every file whose hash is not stored then (and
\* whose processing does not throw) is accepted with one Document record of its
\* own and keeps its file, wherever it stands relative to the duplicates.
C11_DuplicateRejectedOthersAccepted ==
    [][ Processed(last') =>
          \A k \in 1..Len(last'.files) :
             LET file == last'.files[k]
             IN  /\ (StoredWhenProcessed(documents, last', k) /\ file.fault # "read")
                       => /\ ~Accepted(last', k)
                          /\ file.path \notin disk'
                          /\ RecordsOfPath(documents', file.path) = {}
                          /\ ErrorOf(last', k) = [kind |-> "already uploaded",
                                                  originalname |-> file.originalname]
                 /\ (~StoredWhenProcessed(documents, last', k) /\ file.fault = "none")
                       => /\ Accepted(last', k)
                          /\ file.path \in disk'
                          /\ Cardinality(RecordsOfPath(documents', file.path)) = 1
                          /\ \A d \in RecordsOfPath(documents', file.path) :
                                /\ d > Len(documents)
                                /\ documents'[d].documentHash = Sha256(file.content)
      ]_vars

\* a batch whose first file is a duplicate of a stored Document and whose second
\* file is new: the first is rejected as already uploaded, the second accepted
C11_Witness ==
    /\ Processed(last)
    /\ Len(last.files) = 2
    /\ last.files[1].fault = "none" /\ last.files[2].fault = "none"
    /\ last.files[1].content # last.files[2].content
    /\ ~Accepted(last, 1)
    /\ Accepted(last, 2)
    /\ last.errors = <<[kind |-> "already uploaded", originalname |-> last.files[1].originalname]>>
    /\ last.files[1].path \notin disk
    /\ Len(documents) = 2
    /\ documents[2].filePath = last.files[2].path

\* the user who submitted the request of the response resp
Submitter(us, resp) == {k \in 1..Len(us) : us[k].id = resp.userId}

\* C12: when the submitting user is not email-verified, every temporary file
\* of the batch is deleted, the response is a failure with status 400, and
\* the Document records are the same before and after the request.
C12_UnverifiedUploadsNothing ==
    [][ (last'.op = "uploadFiles"
         /\ \E k \in Submitter(users, last') : ~users[k].isEmailVerified)
        => /\ \A i \in 1..Len(last'.files) : last'.files[i].path \notin disk'
           /\ last'.success = FALSE
           /\ last'.status = 400
           /\ documents' = documents
      ]_vars

\* an unverified user sent two files while another user's Document is stored
C12_Witness ==
    /\ last.op = "uploadFiles"
    /\ \E k \in Submitter(users, last) : ~users[k].isEmailVerified
    /\ Len(last.files) = 2
    /\ last.status = 400 /\ last.success = FALSE
    /\ last.message = "Please verify your email before uploading documents"
    /\ \A i \in 1..2 : last.files[i].path \notin disk
    /\ Len(documents) = 1
    /\ disk # {}

VerifiedSubmitter(us, resp) == \E k \in Submitter(us, resp) : us[k].isEmailVerified

Rejected(resp) == {k \in 1..Len(resp.files) : ~Accepted(resp, k)}

\* C13, as stated: for every non-empty batch of a verified user the response is
\* success with 201 exactly when a Document was created for one of its files,
\* failure with 400 when none was, and lists one error per rejected file.
C13_StatusFollowsAcceptance ==
    [][ (last'.op = "uploadFiles" /\ Len(last'.files) > 0 /\ VerifiedSubmitter(users, last'))
        => /\ (last'.success /\ last'.status = 201) <=> (Len(documents') > Len(documents))
           /\ (Len(documents') = Len(documents))
                 => (last'.success = FALSE /\ last'.status = 400)
           /\ Len(last'.errors) = Cardinality(Rejected(last'))
      ]_vars

\* C13, amended: the rule holds for the batches whose metadata parses; a batch
\* whose metadata does not parse is answered with failure and status 500, no
\* file of it is processed: no Document is created, every temporary file is
\* deleted and no per-file error is listed.
C13_StatusFollowsAcceptanceWhenParsed ==
    [][ (last'.op = "uploadFiles" /\ Len(last'.files) > 0 /\ VerifiedSubmitter(users, last'))
        => IF last'.metaOk
           THEN /\ (last'.success /\ last'.status = 201) <=> (Len(documents') > Len(documents))
                /\ (Len(documents') = Len(documents))
                      => (last'.success = FALSE /\ last'.status = 400)
                /\ Len(last'.errors) = Cardinality(Rejected(last'))
                /\ \A k \in Rejected(last') :
                      /\ ErrorOf(last', k).originalname = last'.files[k].originalname
                      /\ ErrorOf(last', k).kind \in {"already uploaded", "Failed to process file"}
                /\ Len(documents') - Len(documents)
                      = Len(last'.files) - Cardinality(Rejected(last'))
           ELSE /\ last'.success = FALSE /\ last'.status = 500
                /\ documents' = documents
                /\ last'.errors = <<>> /\ last'.uploadedFiles = <<>>
                /\ \A i \in 1..Len(last'.files) : last'.files[i].path \notin disk'
      ]_vars

\* a batch of two files with parsed metadata, one accepted and one rejected:
\* 201, success, one per-file error
C13_Witness ==
    /\ last.op = "uploadFiles" /\ last.metaOk /\ VerifiedSubmitter(users, last)
    /\ Len(last.files) = 2
    /\ last.success /\ last.status = 201
    /\ Cardinality(Rejected(last)) = 1
    /\ Len(last.errors) = 1
    /\ last.totalUploaded = 1

\* the processing of file k threw: its read or hash lookup failed, or its
\* identifier generation or insert failed (reached only by a file whose hash
\* is not stored)
Threw(docs, resp, k) ==
    \/ resp.files[k].fault = "read"
    \/ resp.files[k].fault = "insert" /\ ~StoredWhenProcessed(docs, resp, k)

\* C14: when the processing of a file of a batch throws, the file's temporary
\* file is deleted, no Document record exists for it, one per-file error is
\* added for it, and the loop goes on: every file has one outcome, the files
\* after it are accepted as they would be without it, and the response is the
\* 201 or 400 of a processed batch, not a 500.
C14_ThrowingFileIsIsolated ==
    [][ (last'.op = "uploadFiles" /\ Len(last'.files) > 0 /\ last'.metaOk
         /\ VerifiedSubmitter(users, last'))
        => \A k \in 1..Len(last'.files) :
              Threw(documents, last', k)
              => /\ last'.files[k].path \notin disk'
                 /\ RecordsOfPath(documents', last'.files[k].path) = {}
                 /\ ~Accepted(last', k)
                 /\ ErrorOf(last', k) = [kind |-> "Failed to process file",
                                         originalname |-> last'.files[k].originalname]
                 /\ Len(last'.errors) = Cardinality(Rejected(last'))
                 /\ last'.status \in {201, 400}
                 /\ last'.status = 201 <=> Rejected(last') # 1..Len(last'.files)
                 /\ \A j \in (k + 1)..Len(last'.files) :
                       (last'.files[j].fault = "none"
                        /\ ~StoredWhenProcessed(documents, last', j))
                       => (Accepted(last', j) /\ last'.files[j].path \in disk')
      ]_vars

\* the first file of a batch threw and the second was accepted after it
C14_Witness ==
    /\ last.op = "uploadFiles" /\ last.metaOk /\ VerifiedSubmitter(users, last)
    /\ Len(last.files) = 2
    /\ last.files[1].fault = "insert" /\ last.files[2].fault = "none"
    /\ last.files[1].content = last.files[2].content
    /\ ~Accepted(last, 1) /\ Accepted(last, 2)
    /\ last.files[1].path \notin disk /\ last.files[2].path \in disk
    /\ last.errors = <<[kind |-> "Failed to process file",
                        originalname |-> last.files[1].originalname]>>
    /\ last.status = 201

\* C15: in the response for a processed batch, totalRequested is the number
\* of files received, totalUploaded the number of Document records the request
\* created, and totalUploaded plus the number of errors is totalRequested:
\* each file is either accepted once or has one error.
C15_TotalsAddUp ==
    [][ Processed(last') =>
          /\ last'.totalRequested = Len(last'.files)
          /\ last'.totalUploaded = Len(documents') - Len(documents)
          /\ last'.totalUploaded = Len(last'.uploadedFiles)
          /\ last'.totalUploaded + Len(last'.errors) = last'.totalRequested
          /\ \A k \in 1..Len(last'.files) :
                /\ Cardinality({n \in 1..Len(last'.uploadedFiles) :
                       last'.uploadedFiles[n].filePath = last'.files[k].path})
                     = (IF Accepted(last', k) THEN 1 ELSE 0)
                /\ Cardinality(RecordsOfPath(documents', last'.files[k].path))
                     = (IF Accepted(last', k) THEN 1 ELSE 0)
          /\ Len(last'.errors) = Cardinality(Rejected(last'))
      ]_vars

\* a batch of two files, one accepted and one failed, after an earlier upload
C15_Witness ==
    /\ Processed(last)
    /\ last.totalRequested = 2
    /\ last.totalUploaded = 1
    /\ Len(last.errors) = 1
    /\ last.errors[1].kind = "Failed to process file"
    /\ Len(documents) = 2

(***************************************************************************)
(* Properties of the payment page                                          *)
(***************************************************************************)
\* the order entry or file that row k of the rendered list was built from
RowSource(pg, k) == IF Len(pg.order) > 0 THEN pg.order[k] ELSE pg.files[k]

\* the positive base prices listed for a document type id
BasePrices(id) ==
    {DOCUMENT_TYPES[d].basePrice : d \in {e \in 1..Len(DOCUMENT_TYPES) :
        DOCUMENT_TYPES[e].id = id /\ DOCUMENT_TYPES[e].basePrice > 0}}

\* C16: the unit price of a row whose document type has the positive base
\* price b is b for Standard and for a missing tier, 1.5 b rounded with halves
\* up for Express and 2 b for Premium; a row whose document type is unknown
\* or has no base price costs the fallback 100 whatever its tier.
C16_UnitPriceByTier ==
    page.renders > 0 =>
        \A k \in 1..Len(page.items) :
            LET src == RowSource(page, k)
                price == page.items[k].price
            IN  IF BasePrices(src.documentTypeId) = {}
                THEN price = 100
                ELSE \A b \in BasePrices(src.documentTypeId) :
                        IF src.tier = <<"Express">> THEN 2 * price = 3 * b + (b % 2)
                        ELSE IF src.tier = <<"Premium">> THEN price = 2 * b
                        ELSE price = b

\* an Express row of the type with base price 333 costs 500 (499.5 rounded
\* up), beside a Premium row of an unknown type that costs 100
C16_Witness ==
    /\ page.renders > 0
    /\ Len(page.order) = 2
    /\ page.order[1].documentTypeId = <<"d2">> /\ page.order[1].tier = <<"Express">>
    /\ page.order[2].documentTypeId = <<"zz">> /\ page.order[2].tier = <<"Premium">>
    /\ page.items[1].price = 500
    /\ page.items[2].price = 100

RECURSIVE SeqSum(_)
SeqSum(q) == IF Len(q) = 0 THEN 0 ELSE q[1] + SeqSum(Tail(q))

RowPrices(pg) == [k \in 1..Len(pg.items) |-> pg.items[k].price]

\* C17: without a server breakdown the subtotal is the sum of the rows' unit
\* prices, the tax is 18% of the subtotal rounded to the nearest integer
\* (halves up) and the total is subtotal plus tax; the rows [base 1000
\* Standard, base 1000 Premium] give prices 1000 and 2000, subtotal 3000, tax
\* 540 and total 3540.
C17_LocalTotals ==
    (page.renders > 0 /\ page.calculation = NoCalculation) =>
        /\ page.subtotal = SeqSum(RowPrices(page))
        /\ 100 * page.gstAmount - 18 * page.subtotal \in -49..50
        /\ page.totalAmount = page.subtotal + page.gstAmount
        /\ (/\ Len(page.items) = 2
            /\ \A k \in 1..2 : RowSource(page, k).documentTypeId = <<"d1">>
            /\ RowSource(page, 1).tier = <<"Standard">>
            /\ RowSource(page, 2).tier = <<"Premium">>)
           => /\ RowPrices(page) = <<1000, 2000>>
              /\ page.subtotal = 3000 /\ page.gstAmount = 540 /\ page.totalAmount = 3540

\* the two rows of the example, rendered without a breakdown
C17_Witness ==
    /\ page.renders > 0 /\ page.calculation = NoCalculation
    /\ Len(page.order) = 2
    /\ page.order[1].documentTypeId = <<"d1">> /\ page.order[1].tier = <<"Standard">>
    /\ page.order[2].documentTypeId = <<"d1">> /\ page.order[2].tier = <<"Premium">>
    /\ page.subtotal = 3000 /\ page.gstAmount = 540 /\ page.totalAmount = 3540

\* C18: an amount the server breakdown supplies is the one displayed, not the
\* locally computed one; when the breakdown supplies no total, the total is
\* the displayed subtotal plus the displayed tax, also when the breakdown
\* supplies only a subtotal (the tax is then 18% of it) or only a tax.
C18_BreakdownTakesPrecedence ==
    page.renders > 0 =>
        LET c == page.calculation
        IN  /\ c.subtotal.type = "number" => page.subtotal = c.subtotal.num
            /\ c.gstAmount.type = "number" => page.gstAmount = c.gstAmount.num
            /\ c.totalAmount.type = "number" => page.totalAmount = c.totalAmount.num
            /\ c.subtotal.type # "number" => page.subtotal = SeqSum(RowPrices(page))
            /\ c.gstAmount.type # "number"
                  => 100 * page.gstAmount - 18 * page.subtotal \in -49..50
            /\ c.totalAmount.type # "number"
                  => page.totalAmount = page.subtotal + page.gstAmount

\* a breakdown with only a subtotal of 500, over rows that add up to 1000:
\* 500, 90 and 590 are displayed
C18_Witness ==
    /\ page.renders > 0
    /\ page.calculation = [subtotal |-> JsNum(500), gstAmount |-> JsUndefined,
                           totalAmount |-> JsUndefined]
    /\ SeqSum(RowPrices(page)) = 1000
    /\ page.subtotal = 500 /\ page.gstAmount = 90 /\ page.totalAmount = 590

RowIds(pg) == [k \in 1..Len(pg.items) |-> pg.items[k].id]

\* C19, as stated: the rendered list never holds two rows with the same id,
\* and a later render of the same input gives the same ids in the same order.
C19_ItemIdsDistinctAndStable ==
    /\ [](\A i, j \in 1..Len(page.items) : i # j => page.items[i].id # page.items[j].id)
    /\ [][page.renders > 0 => RowIds(page') = RowIds(page)]_vars

(***************************************************************************)
(* Properties of withRetry                                                 *)
(***************************************************************************)
\* the retries and the first wait the call was made with
RetriesGiven(r) == IF r.args.retries.type = "number" THEN r.args.retries.num ELSE 2
DelayGiven(r) == IF r.args.delayMs.type = "number" THEN r.args.delayMs.num ELSE 600

Settled(r) == r.pc \in {"resolved", "rejected"}

\* C20: withRetry invokes fn at most retries + 1 times (3 with the defaults);
\* it returns the value of the first invocation that succeeds and invokes fn
\* no more; when all retries + 1 invocations fail it rejects with the error
\* of the last one; the wait before the first retry is delayMs and each later
\* wait is 1.5 times the one before; and when every invocation of fn settles,
\* the call settles.
C20_RetryIsBounded ==
    /\ [](/\ retry.calls <= RetriesGiven(retry) + 1
          /\ (retry.args.retries.type = "undefined") => retry.calls <= 3
          /\ retry.pc = "resolved"
                => /\ retry.outcome = [kind |-> "value", of |-> retry.calls]
                   /\ retry.failed = [k \in 1..(retry.calls - 1) |-> k]
          /\ retry.pc = "rejected"
                => /\ retry.calls = RetriesGiven(retry) + 1
                   /\ retry.failed = [k \in 1..retry.calls |-> k]
                   /\ retry.outcome = [kind |-> "error", of |-> retry.calls]
          /\ retry.pc \in {"pending", "waiting", "resolved", "rejected"}
                => /\ Len(retry.waits) = retry.calls - (IF retry.pc = "waiting" THEN 0 ELSE 1)
                   /\ Len(retry.waits) > 0
                         => (retry.waits[1].num = DelayGiven(retry) * retry.waits[1].den)
                   /\ \A k \in 1..(Len(retry.waits) - 1) :
                         2 * retry.waits[k + 1].num * retry.waits[k].den
                            = 3 * retry.waits[k].num * retry.waits[k + 1].den)
    /\ [][Settled(retry) => retry' = retry]_vars
    /\ <>Settled(retry)

\* a call with the default parameters whose three invocations all failed:
\* rejected with the third error after waits of 600 and 900
C20_Witness ==
    /\ retry.pc = "rejected"
    /\ retry.args = [retries |-> JsUndefined, delayMs |-> JsUndefined]
    /\ retry.calls = 3
    /\ retry.outcome = [kind |-> "error", of |-> 3]
    /\ retry.waits = <<[num |-> 600, den |-> 1], [num |-> 1800, den |-> 2]>>

(***************************************************************************)
(* Properties of overlapping requests                                      *)
(***************************************************************************)
\* C21, as stated: a registerUser whose lookup finds the email or the mobile
\* number held by a User fails and creates no User and no EmailVerification
\* record; and in every reachable state, also with overlapping registerUser
\* requests, no two Users share an email and no two share a mobile number.
C21_UsersAreUnique ==
    /\ [][\A k \in 1..Len(inflight) :
            (/\ At(k, "registerUser", "findOne")
             /\ inflight'[k].pc # "findOne"
             /\ \E i \in 1..Len(users) :
                   users[i].email = inflight[k].email \/ users[i].mobile = inflight[k].mobile)
            => (/\ inflight'[k].pc = "done" /\ inflight'[k].result = ErrExists
                /\ users' = users /\ verifs' = verifs)]_vars
    /\ [](\A i, j \in 1..Len(users) :
            i # j => (users[i].email # users[j].email /\ users[i].mobile # users[j].mobile))

\* two overlapping registerUser requests for one email have both returned
\* successfully and two Users hold the email
C21_Witness ==
    /\ Len(inflight) = 2
    /\ \A k \in 1..2 : inflight[k].op = "registerUser" /\ inflight[k].pc = "done"
                         /\ inflight[k].result = Ok
    /\ inflight[1].email = inflight[2].email
    /\ Len(users) = 2 /\ users[1].email = users[2].email

\* the files of request req whose processing has ended
ProcessedFiles(req) ==
    IF req.pc = "done" THEN 1..Len(req.files) ELSE 1..(req.i - 1)

AcceptedIn(req, j) ==
    \E n \in 1..Len(req.uploaded) : req.uploaded[n].filePath = req.files[j].path

\* C22: with uploadFiles requests interleaved at the hash lookup and the
\* insert, no two Document records ever have the same hash; a file that is
\* not accepted is reported as one per-file error of its request and its
\* temporary file is deleted; and the file of every stored record stays on
\* disk.
C22_ConcurrentUploadsStoreOnce ==
    /\ \A c, d \in 1..Len(documents) :
          c # d => documents[c].documentHash # documents[d].documentHash
    /\ \A d \in 1..Len(documents) : documents[d].filePath \in disk
    /\ \A k \in 1..Len(inflight) :
          inflight[k].op = "uploadFiles" =>
             LET req == inflight[k]
                 rejected == {j \in ProcessedFiles(req) : ~AcceptedIn(req, j)}
             IN  /\ Len(req.errors) = Cardinality(rejected)
                 /\ \A j \in rejected : req.files[j].path \notin disk
                 /\ \A j \in ProcessedFiles(req) :
                       AcceptedIn(req, j)
                       => Cardinality(RecordsOfPath(documents, req.files[j].path)) = 1

\* two requests with the same bytes have both ended; the second passed the
\* lookup before the first inserted and lost at the insert: one record, the
\* loser's file deleted, the winner's file on disk
C22_Witness ==
    /\ Len(inflight) = 2
    /\ \A k \in 1..2 : inflight[k].op = "uploadFiles" /\ inflight[k].pc = "done"
                         /\ Len(inflight[k].files) = 1
    /\ inflight[1].files[1].content = inflight[2].files[1].content
    /\ inflight[1].result = 201 /\ inflight[2].result = 400
    /\ inflight[2].errors = <<FailedError(inflight[2].files[1])>>
    /\ Len(documents) = 1
    /\ disk = {inflight[1].files[1].path}

\* the requests of one operation that have returned without an error
DoneOk(op) == {k \in 1..Len(inflight) : inflight[k].op = op /\ inflight[k].pc = "done"
                                         /\ inflight[k].result = Ok}

RecordsOfEmail(email) == {n \in 1..Len(verifs) : verifs[n].email = email}

\* C23: once all overlapping resendOtp requests for an email have returned,
\* exactly one EmailVerification record exists for that email, so only one
\* identifier/code pair verifies.
C23_ResendLeavesOneRecord ==
    \A e \in Emails :
       LET mine == {k \in 1..Len(inflight) : inflight[k].op = "resendOtp"
                                              /\ inflight[k].email = e}
       IN  (/\ mine # {}
            /\ mine \subseteq DoneOk("resendOtp"))
           => Cardinality(RecordsOfEmail(e)) = 1

\* two resends for one email have returned and both their identifier/code
\* pairs verify
C23_Witness ==
    /\ Len(inflight) = 2
    /\ DoneOk("resendOtp") = {1, 2}
    /\ inflight[1].email = inflight[2].email
    /\ inflight[1].verificationId # inflight[2].verificationId
    /\ \A k \in 1..2 : VerifyOutcome(inflight[k].verificationId, inflight[k].otp) = Ok

\* C24: for each issued record at most one verifyOtp request succeeds and at
\* most one session token is issued from it, also when the requests overlap.
C24_OneVerifyPerRecord ==
    \A v \in DOMAIN issued :
       Cardinality({k \in DoneOk("verifyOtp") : inflight[k].verificationId = v}) <= 1

\* two verifyOtp requests with one identifier have both returned a token
C24_Witness ==
    /\ Len(inflight) = 2
    /\ DoneOk("verifyOtp") = {1, 2}
    /\ inflight[1].verificationId = inflight[2].verificationId
    /\ inflight[1].token # NoToken /\ inflight[2].token # NoToken

\* C25: a User is unverified right after registerUser, becomes verified only
\* in a successful verifyOtp on an unexpired record of that user's email with
\* the matching code, and once verified stays verified.
C25_VerifiedOnlyByOtp ==
    [][ /\ \A i \in 1..Len(users') :
              (users'[i].isEmailVerified /\ (i > Len(users) \/ ~users[i].isEmailVerified))
              => /\ last'.op = "verifyOtp" /\ last'.result = Ok
                 /\ \E n \in 1..Len(verifs) :
                       /\ verifs[n].verificationId = last'.verificationId
                       /\ verifs[n].email = users'[i].email
                       /\ verifs[n].otp = last'.otp
                       /\ now < verifs[n].expiresAt
        /\ \A i \in 1..Len(users) :
              users[i].isEmailVerified => (i <= Len(users') /\ users'[i].isEmailVerified)
      ]_vars

\* a registration has just succeeded and its User is verified
C25_Witness ==
    /\ last.op = "registerUser" /\ last.result = Ok
    /\ \E i \in 1..Len(users) : users[i].email = last.email /\ users[i].isEmailVerified

\* C26: every Document record is owned by a user who completed a successful
\* verifyOtp before the record was created; such a verifyOtp consumed a
\* record that was issued for the owner's email.
C26_DocumentsOfVerifiedOwners ==
    \A d \in 1..Len(documents) :
       \E i \in 1..Len(users) :
          /\ users[i].id = documents[d].userId
          /\ users[i].isEmailVerified
          /\ \E v \in DOMAIN issued :
                /\ issued[v].email = users[i].email
                /\ \A n \in 1..Len(verifs) : verifs[n].verificationId # v

\* a Document is stored for an owner for whose email no identifier was ever issued
C26_Witness ==
    \E d \in 1..Len(documents), i \in 1..Len(users) :
       /\ users[i].id = documents[d].userId
       /\ \A v \in DOMAIN issued : issued[v].email # users[i].email

C27_WitnessWholeRequestError ==
    /\ last.op = "uploadFiles"
    /\ last.status = 500
    /\ Len(last.files) = 2
    /\ \A i \in 1..2 : last.files[i].path \notin disk

\* C28: a batch whose batch-level metadata does not parse is rejected as a
\* validation error before any side effect: the answer has status 400, no
\* Document record is created and no file of the batch gets a per-file
\* outcome (none is hashed or looked up).
C28_MalformedMetadataIs400 ==
    [][ (last'.op = "uploadFiles" /\ ~last'.metaOk)
        => /\ last'.status = 400
           /\ ~last'.success
           /\ documents' = documents
           /\ last'.uploadedFiles = <<>>
           /\ last'.errors = <<>>
      ]_vars

\* a verified user's batch of one file with unparseable metadata was answered
\* with status 500
C28_Witness ==
    /\ last.op = "uploadFiles"
    /\ ~last.metaOk
    /\ Len(last.files) = 1
    /\ VerifiedSubmitter(users, last)
    /\ last.status = 500
    /\ last.message = ParseErrorMessage
    /\ documents = <<>>

(***************************************************************************)
(* Properties of the verification modal                                    *)
(***************************************************************************)
\* the response of call k is consumed in this step
Settles(k, op) ==
    /\ At(k, op, "done")
    /\ inflight' = SelectSeqBy(inflight, (1..Len(inflight)) \ {k})

\* a call of op is sent in this step
Sends(op) ==
    /\ Len(inflight') = Len(inflight) + 1
    /\ inflight'[Len(inflight')].op = op

\* C29: the countdown starts at 120 when the modal is shown, goes down by
\* exactly 1 per tick, stays within 0..120 and stops at 0; resend is enabled
\* only at 0; a successful resend sets the timer to 120 and disables resend, a
\* failed one leaves timer and canResend as they are; and the server does not
\* look at the timer: a verifyOtp call with the code of an unexpired record
\* passes the lookup and the comparison whatever the timer shows.
C29_CountdownIsAdvisory ==
    /\ [](modal.timer \in 0..TimerStart)
    /\ []((modal.shown /\ ~ResendDisabled(modal)) => modal.timer = 0)
    /\ [][ /\ (~modal.shown /\ modal'.shown)
              => (modal'.timer = TimerStart /\ ResendDisabled(modal'))
           /\ (modal.shown /\ modal'.shown /\ modal'.timer # modal.timer)
              => \/ modal'.timer = modal.timer - 1
                 \/ \E k \in 1..Len(inflight) :
                       Settles(k, "resendOtp") /\ inflight[k].result = Ok
           /\ \A k \in 1..Len(inflight) :
                 (Settles(k, "resendOtp") /\ modal.shown)
                 => IF inflight[k].result = Ok
                    THEN modal'.timer = TimerStart /\ ResendDisabled(modal')
                                                  /\ ~modal'.canResend
                    ELSE modal'.timer = modal.timer /\ modal'.canResend = modal.canResend
           /\ \A k \in 1..Len(inflight) :
                 (/\ At(k, "verifyOtp", "findOne")
                  /\ inflight' # inflight
                  /\ Len(inflight') = Len(inflight)
                  /\ inflight'[k] # inflight[k])
                 => (inflight'[k].pc = "findUser"
                     <=> \E n \in 1..Len(verifs) :
                            /\ verifs[n].verificationId = inflight[k].verificationId
                            /\ now < verifs[n].expiresAt
                            /\ verifs[n].otp = inflight[k].otp)
         ]_vars

\* the countdown is at 0, resend is enabled, and the call the modal sent with
\* the code of its record has verified the email on the server
C29_Witness ==
    /\ modal.shown
    /\ modal.timer = 0
    /\ ~ResendDisabled(modal)
    /\ modal.isVerifying
    /\ modal.resent = NoId
    /\ \E k \in 1..Len(inflight) :
          /\ At(k, "verifyOtp", "done")
          /\ inflight[k].result = Ok
          /\ inflight[k].verificationId = modal.verificationId
          /\ inflight[k].otp = JoinCells(modal.otp)

\* C30: a verify call is sent only with all 6 cells filled and an identifier
\* present, and carries the identifier the page holds; a resend that succeeds
\* hands its identifier to the page, so once a resend of the modal has
\* completed every later verify call carries the identifier that resend
\* returned.
C30_VerifySendsNewestId ==
    /\ []((modal.shown /\ modal.resent # NoId) => modal.verificationId = modal.resent)
    /\ [][ /\ Sends("verifyOtp")
              => LET req == inflight'[Len(inflight')]
                 IN  /\ \A i \in 1..OtpLength : Len(modal.otp[i]) = 1
                     /\ req.otp = JoinCells(modal.otp)
                     /\ req.verificationId # NoId
                     /\ req.verificationId = modal.verificationId
                     /\ modal.resent # NoId => req.verificationId = modal.resent
           /\ \A k \in 1..Len(inflight) :
                 (Settles(k, "resendOtp") /\ inflight[k].result = Ok)
                 => /\ modal'.verificationId = inflight[k].verificationId
                    /\ modal'.resent = inflight[k].verificationId
         ]_vars

\* after a resend the modal has sent a verify call with the identifier the
\* resend returned, and the record of the earlier identifier is purged
C30_Witness ==
    /\ modal.shown
    /\ modal.resent # NoId
    /\ \E k \in 1..Len(inflight) :
          /\ inflight[k].op = "verifyOtp"
          /\ inflight[k].verificationId = modal.resent
    /\ \E v \in DOMAIN issued :
          /\ v # modal.resent
          /\ issued[v].email = modal.email
          /\ \A n \in 1..Len(verifs) : verifs[n].verificationId # v

====
